---- MODULE Spec2Model ----
(***************************************************************************)
(* hermes-docgen: extraction of documentation items from a parsed          *)
(* TypeScript file and their rendering as Markdown.                        *)
(*                                                                         *)
(* Strings are sequences of one-character strings, so that the regular     *)
(* expressions of the code (slugging, @param matching, trimming) are       *)
(* computed character by character.                                        *)
(***************************************************************************)
EXTENDS Integers, Sequences, FiniteSets, TLC

VARIABLES
    text,       \* getSlug: the input string
    slug,       \* getSlug: getSlug(text), or NoResult before the call
    reslug,     \* getSlug: getSlug(slug), or NoResult before the call
    file,       \* extractDocumentation: the declarations of the parsed file, in file order
    items,      \* formatMarkdown: the DocItem sequence it is called with
    tocDepth,   \* formatMarkdown: options.tocDepth
    includeTypes, \* formatMarkdown: options.includeTypes
    calls,      \* the calls of formatMarkdown that returned before the current one
    markdown,   \* formatMarkdown: the returned document, as a sequence of lines
    raised,     \* TRUE once an exception has propagated out of a call
    disk,       \* the file system: the content of every file and the directories
    request,    \* the arguments and the environment of the operation under way
    locals,     \* the local variables of the operation under way
    result,     \* the value the operation returned, or NoResult before it returns
    log,        \* the writes to the file system so far, in order
    pc          \* position of the driver of the specification at hand

slugVars == <<text, slug, reslug>>
formatVars == <<items, tocDepth, includeTypes, calls, markdown, raised>>
ioVars == <<disk, request, locals, result, log>>
vars == <<text, slug, reslug, file, items, tocDepth, includeTypes, calls, markdown, raised,
          disk, request, locals, result, log, pc>>

(***************************************************************************)
(* Bounds of the model.                                                    *)
(***************************************************************************)
MaxLen == 3         \* longest input of getSlug
MaxItems == 2       \* most items in one call of formatMarkdown
MaxTocDepth == 2    \* largest options.tocDepth
MaxDecls == 3       \* most top-level declarations in one parsed file
MaxBlocks == 2      \* most comment blocks attached to one declaration
MaxTags == 2        \* most tags in all comment blocks of one declaration

(***************************************************************************)
(* Characters.                                                             *)
(***************************************************************************)
LowerChars == {"a", "b", "c", "d", "e", "m", "n", "o", "p", "r", "s", "t", "u", "x", "y"}
UpperChars == {"A", "B"}
OtherWordChars == {"_", "1"}
WhiteSpace == {" ", "\t"}
Hyphen == "-"

\* \w of a JavaScript regular expression without the u flag: [A-Za-z0-9_]
WordChars == LowerChars \cup UpperChars \cup OtherWordChars

\* String.prototype.toLowerCase on one character
LowerOf(c) ==
    CASE c = "A" -> "a"
      [] c = "B" -> "b"
      [] OTHER -> c

ToLowerCase(s) == [i \in 1..Len(s) |-> LowerOf(s[i])]

\* s.replace(/[^...]/g, ""): drop every character outside keep
RECURSIVE RemoveOutside(_, _)
RemoveOutside(s, keep) ==
    IF s = <<>> THEN <<>>
    ELSE IF Head(s) \in keep THEN <<Head(s)>> \o RemoveOutside(Tail(s), keep)
    ELSE RemoveOutside(Tail(s), keep)

\* s.replace(/[class]+/g, rep): each maximal run of characters of class
\* becomes the one string rep
RECURSIVE ReplaceRuns(_, _, _)
ReplaceRuns(s, class, rep) ==
    IF s = <<>> THEN <<>>
    ELSE IF Head(s) \in class
         THEN IF Len(s) > 1 /\ s[2] \in class
              THEN ReplaceRuns(Tail(s), class, rep)
              ELSE rep \o ReplaceRuns(Tail(s), class, rep)
         ELSE <<Head(s)>> \o ReplaceRuns(Tail(s), class, rep)

SlugKeepsCase(t) ==
    ReplaceRuns(
        ReplaceRuns(
            RemoveOutside(t, WordChars \cup WhiteSpace \cup {Hyphen}),
            WhiteSpace, <<Hyphen>>),
        {Hyphen}, <<Hyphen>>)

SlugHyphensFirst(t) ==
    ReplaceRuns(
        ReplaceRuns(
            RemoveOutside(ToLowerCase(t), WordChars \cup WhiteSpace \cup {Hyphen}),
            {Hyphen}, <<Hyphen>>),
        WhiteSpace, <<Hyphen>>)

getSlug(t) ==
    ReplaceRuns(
        ReplaceRuns(
            RemoveOutside(ToLowerCase(t), WordChars \cup WhiteSpace \cup {Hyphen}),
            WhiteSpace, <<Hyphen>>),
        {Hyphen}, <<Hyphen>>)

(***************************************************************************)
(* Specification of getSlug: every string over SlugAlphabet up to MaxLen   *)
(* is slugged, and the result is slugged again.                            *)
(***************************************************************************)
NoResult == <<"NO-RESULT">>

(***************************************************************************)
(* The file system and the operations that use it.  The specifications of  *)
(* getSlug, extraction and rendering leave all of it idle.                 *)
(***************************************************************************)
\* no file and no directory but the root
EmptyDisk == [files |-> <<>>, dirs |-> {<<>>}]

NoRequest == [op |-> "none"]

NoLocals == [op |-> "none"]

IoIdle ==
    /\ disk = EmptyDisk
    /\ request = NoRequest
    /\ locals = NoLocals
    /\ result = NoResult
    /\ log = <<>>

SlugAlphabet == {"a", "B", "_", " ", "\t", "-", "."}

RECURSIVE StringsUpTo(_, _)
StringsUpTo(alphabet, n) ==
    IF n = 0 THEN {<<>>}
    ELSE LET shorter == StringsUpTo(alphabet, n - 1)
         IN  shorter \cup {Append(s, c) : s \in {t \in shorter : Len(t) = n - 1}, c \in alphabet}

SlugInit ==
    /\ text \in StringsUpTo(SlugAlphabet, MaxLen)
    /\ slug = NoResult
    /\ reslug = NoResult
    /\ IoIdle
    /\ pc = "slug"
    /\ file = <<>>
    /\ items = <<>>
    /\ tocDepth = 1
    /\ markdown = <<>>
    /\ raised = FALSE
    /\ includeTypes = TRUE
    /\ calls = <<>>

CallGetSlug ==
    /\ pc = "slug"
    /\ slug' = getSlug(text)
    /\ pc' = "reslug"
    /\ UNCHANGED <<text, reslug, file>>
    /\ UNCHANGED formatVars
    /\ UNCHANGED ioVars

CallGetSlugAgain ==
    /\ pc = "reslug"
    /\ reslug' = getSlug(slug)
    /\ pc' = "done"
    /\ UNCHANGED <<text, slug, file>>
    /\ UNCHANGED formatVars
    /\ UNCHANGED ioVars

SlugNext == CallGetSlug \/ CallGetSlugAgain

SpecSlug == SlugInit /\ [][SlugNext]_vars

(***************************************************************************)
(* The claimed algorithm of slug, step by step, written over positions     *)
(* (not with the code's replace calls).                                    *)
(***************************************************************************)
IsAllowedInSlug(c) == c \in WordChars \/ c \in WhiteSpace \/ c = Hyphen

\* each maximal run of characters of class shrinks to its last character,
\* which becomes a hyphen
CollapseRunsToHyphen(s, class) ==
    LET marked == [i \in 1..Len(s) |->
                      [ch |-> IF s[i] \in class THEN Hyphen ELSE s[i],
                       keep |-> ~(s[i] \in class /\ i < Len(s) /\ s[i + 1] \in class)]]
        IsKept(m) == m.keep
        kept == SelectSeq(marked, IsKept)
    IN  [i \in 1..Len(kept) |-> kept[i].ch]

StepLowercase(t) == [i \in 1..Len(t) |-> IF t[i] \in UpperChars THEN LowerOf(t[i]) ELSE t[i]]
StepStrip(t) == SelectSeq(t, IsAllowedInSlug)
StepWhitespace(t) == CollapseRunsToHyphen(t, WhiteSpace)
StepHyphens(t) == CollapseRunsToHyphen(t, {Hyphen})

ClaimedSlug(t) == StepHyphens(StepWhitespace(StepStrip(StepLowercase(t))))

HasNoUppercase(s) == \A i \in 1..Len(s) : s[i] \notin UpperChars
HasNoWhitespace(s) == \A i \in 1..Len(s) : s[i] \notin WhiteSpace
HasNoAdjacentHyphens(s) == \A i \in 1..(Len(s) - 1) : ~(s[i] = Hyphen /\ s[i + 1] = Hyphen)

\* C9: slug is idempotent: slugging the result of slug gives that result again.
SlugIdempotent == pc = "done" => reslug = slug

\* C9 witness: a slug that differs from its input and keeps a hyphen was slugged again
SlugIdempotentWitness ==
    /\ pc = "done"
    /\ slug # text
    /\ \E i \in 1..Len(slug) : slug[i] = Hyphen
    /\ \E i \in 1..Len(text) : text[i] \in WhiteSpace

\* C10: slug returns the result of lowercasing, stripping every character that is
\* not a word character, whitespace or hyphen, turning each whitespace run into one
\* hyphen and each hyphen run into one hyphen, in that order; it is defined for
\* every string and its result has no uppercase letter, no whitespace and no two
\* adjacent hyphens.
SlugFollowsSteps ==
    pc # "slug" =>
        /\ slug # NoResult
        /\ slug = ClaimedSlug(text)
        /\ HasNoUppercase(slug)
        /\ HasNoWhitespace(slug)
        /\ HasNoAdjacentHyphens(slug)

\* C10 witness: an input with an uppercase letter and a stripped character was
\* slugged to a shorter, non-empty string
SlugFollowsStepsWitness ==
    /\ pc # "slug"
    /\ \E i \in 1..Len(text) : text[i] \in UpperChars
    /\ \E i \in 1..Len(text) : ~IsAllowedInSlug(text[i])
    /\ Len(slug) < Len(text)
    /\ Len(slug) > 0

(***************************************************************************)
(* The documentation model (DocItem) and the renderer.                     *)
(*                                                                         *)
(* A top-level item is a record [kind, name, line, properties, methods,    *)
(* constructors]; members are records [name].  line is location.line.      *)
(* The rendered document is the sequence of its structural lines: the      *)
(* table-of-contents lines, and per block the anchor, the heading, the     *)
(* keyword of the declaration in the code block, the section headings and  *)
(* the source line.                                                        *)
(***************************************************************************)
Undefined == <<"UNDEFINED">>    \* the JavaScript value undefined in a string field

\* the name given to every constructor
ConstructorName == <<"c", "o", "n", "s", "t", "r", "u", "c", "t", "o", "r">>

DocItemKind == {"function", "class", "interface", "enum", "typeAlias"}

\* Array.prototype.indexOf, 0-based, -1 when absent
IndexOf(seq, x) ==
    IF \E i \in 1..Len(seq) : seq[i] = x
    THEN (CHOOSE i \in 1..Len(seq) : seq[i] = x /\ \A j \in 1..(i - 1) : seq[j] # x) - 1
    ELSE -1

RECURSIVE Flatten(_)
Flatten(seqs) == IF seqs = <<>> THEN <<>> ELSE Head(seqs) \o Flatten(Tail(seqs))

\* String.prototype.localeCompare (ICU root collation): the primary weights
\* (whitespace < punctuation < digits < letters, letters without regard to case)
\* decide first; on a primary tie the first case difference decides, lowercase first.
Letters == <<"a", "b", "c", "d", "e", "m", "n", "o", "p", "r", "s", "t", "u", "x", "y">>

PrimaryWeight(c) ==
    CASE c = "\t" -> 1
      [] c = " " -> 2
      [] c = "_" -> 3
      [] c = "-" -> 4
      [] c = "." -> 5
      [] c = "1" -> 6
      [] OTHER -> 10 + IndexOf(Letters, LowerOf(c))

TertiaryWeight(c) == IF c \in UpperChars THEN 1 ELSE 0

RECURSIVE CompareWeights(_, _)
CompareWeights(a, b) ==
    IF a = <<>> /\ b = <<>> THEN 0
    ELSE IF a = <<>> THEN -1
    ELSE IF b = <<>> THEN 1
    ELSE IF Head(a) < Head(b) THEN -1
    ELSE IF Head(a) > Head(b) THEN 1
    ELSE CompareWeights(Tail(a), Tail(b))

\* A name may hold the letter e with an acute accent in either of its two
\* spellings: the one code point U+00E9, or e followed by the combining
\* accent U+0301.  String.prototype.localeCompare compares canonical
\* decompositions, so the two spellings are the same string to it.
EAcute == "U+00E9"

CombiningAcute == "U+0301"

RECURSIVE CanonicalDecomposition(_)
CanonicalDecomposition(s) ==
    IF s = <<>> THEN <<>>
    ELSE IF Head(s) = EAcute
         THEN <<"e", CombiningAcute>> \o CanonicalDecomposition(Tail(s))
    ELSE <<Head(s)>> \o CanonicalDecomposition(Tail(s))

\* a combining accent has no primary weight; it counts at the accent level
SecondaryWeight(c) == IF c = CombiningAcute THEN 1 ELSE 0

WithoutAccents(s) == SelectSeq(s, LAMBDA c : c # CombiningAcute)

localeCompare(a, b) ==
    LET da == CanonicalDecomposition(a)
        db == CanonicalDecomposition(b)
        pa == WithoutAccents(da)
        pb == WithoutAccents(db)
        primary == CompareWeights([i \in 1..Len(pa) |-> PrimaryWeight(pa[i])],
                                  [i \in 1..Len(pb) |-> PrimaryWeight(pb[i])])
        secondary == CompareWeights([i \in 1..Len(da) |-> SecondaryWeight(da[i])],
                                    [i \in 1..Len(db) |-> SecondaryWeight(db[i])])
    IN  IF primary # 0 THEN primary
        ELSE IF secondary # 0 THEN secondary
        ELSE CompareWeights([i \in 1..Len(pa) |-> TertiaryWeight(pa[i])],
                            [i \in 1..Len(pb) |-> TertiaryWeight(pb[i])])

kindOrder == <<"class", "interface", "function", "typeAlias", "enum">>

CompareItemsExtractionOrder(a, b) ==
    LET order == <<"function", "class", "interface", "enum", "typeAlias">>
        aKindIndex == IndexOf(order, a.kind)
        bKindIndex == IndexOf(order, b.kind)
    IN  IF aKindIndex # bKindIndex THEN aKindIndex - bKindIndex
        ELSE localeCompare(a.name, b.name)

\* the comparator handed to sort
CompareItems(a, b) ==
    LET aKindIndex == IndexOf(kindOrder, a.kind)
        bKindIndex == IndexOf(kindOrder, b.kind)
    IN  IF aKindIndex # bKindIndex THEN aKindIndex - bKindIndex
        ELSE localeCompare(a.name, b.name)

\* [...items].sort(compare): Array.prototype.sort is stable
RECURSIVE InsertItem(_, _)
InsertItem(sorted, x) ==
    IF sorted = <<>> THEN <<x>>
    ELSE IF CompareItems(x, Head(sorted)) < 0 THEN <<x>> \o sorted
    ELSE <<Head(sorted)>> \o InsertItem(Tail(sorted), x)

RECURSIVE SortItems(_)
SortItems(its) ==
    IF its = <<>> THEN <<>>
    ELSE InsertItem(SortItems(SubSeq(its, 1, Len(its) - 1)), its[Len(its)])

getKindHeading(kind) ==
    CASE kind = "class" -> "Classes"
      [] kind = "interface" -> "Interfaces"
      [] kind = "function" -> "Functions"
      [] kind = "enum" -> "Enums"
      [] kind = "typeAlias" -> "Type Aliases"
      [] OTHER -> "Other"

MemberSlug(parentName, memberName) == getSlug(parentName \o <<Hyphen>> \o memberName)

\* the "Properties" or "Methods" sub-list of a class or interface entry
formatTocSubItems(parentName, members, sectionName) ==
    IF members = <<>> THEN <<>>
    ELSE <<[t |-> "tocSection", title |-> sectionName]>>
         \o [i \in 1..Len(members) |->
                [t |-> "tocLink", level |-> 2, text |-> members[i].name,
                 frag |-> MemberSlug(parentName, members[i].name)]]

KindsInOrderRepeating(its) == [i \in 1..Len(its) |-> its[i].kind]

\* the keys of kindGroups in insertion order: the kinds in order of first appearance
RECURSIVE KindsInOrder(_)
KindsInOrder(its) ==
    IF its = <<>> THEN <<>>
    ELSE LET before == KindsInOrder(SubSeq(its, 1, Len(its) - 1))
             kind == its[Len(its)].kind
         IN  IF IndexOf(before, kind) # -1 THEN before ELSE Append(before, kind)

TocEntryAlwaysNested(item, depth) ==
    <<[t |-> "tocLink", level |-> 1, text |-> item.name, frag |-> getSlug(item.name)]>>
    \o (IF item.kind \in {"class", "interface"}
        THEN formatTocSubItems(item.name, item.properties, "Properties")
             \o formatTocSubItems(item.name, item.methods, "Methods")
        ELSE <<>>)

TocEntry(item, depth) ==
    <<[t |-> "tocLink", level |-> 1, text |-> item.name, frag |-> getSlug(item.name)]>>
    \o (IF depth > 1 /\ item.kind \in {"class", "interface"}
        THEN formatTocSubItems(item.name, item.properties, "Properties")
             \o formatTocSubItems(item.name, item.methods, "Methods")
        ELSE <<>>)

formatTableOfContents(its, depth) ==
    LET kinds == KindsInOrder(its)
        IsOfKind(kind) == LET Test(item) == item.kind = kind IN SelectSeq(its, Test)
        Group(kind) ==
            <<[t |-> "kindHeading", title |-> getKindHeading(kind)]>>
            \o Flatten([i \in 1..Len(IsOfKind(kind)) |-> TocEntry(IsOfKind(kind)[i], depth)])
    IN  <<[t |-> "tocTitle"]>> \o Flatten([k \in 1..Len(kinds) |-> Group(kinds[k])])

Anchor(id) == [t |-> "anchor", id |-> id]
Heading(level, name) == [t |-> "heading", level |-> level, text |-> name]
Section(level, title) == [t |-> "section", level |-> level, title |-> title]
CodeBlock(keyword) == [t |-> "code", keyword |-> keyword]
SourceLine(line) == [t |-> "source", line |-> line]

FormatPropertyWithoutParent(prop, parentName) ==
    <<Anchor(getSlug(prop.name)), Heading(4, prop.name), CodeBlock("property")>>

formatProperty(prop, parentName) ==
    <<Anchor(MemberSlug(parentName, prop.name)), Heading(4, prop.name), CodeBlock("property")>>

formatMethod(method, parentName) ==
    <<Anchor(MemberSlug(parentName, method.name)), Heading(4, method.name),
      CodeBlock("method"), Section(5, "Returns")>>

\* "### <sectionName>" and the members, nothing when there is no member
MemberSection(sectionName, blocks) ==
    IF blocks = <<>> THEN <<>> ELSE <<Section(3, sectionName)>> \o Flatten(blocks)

formatFunction(func) ==
    <<Anchor(getSlug(func.name)), Heading(2, func.name), CodeBlock("function"),
      Section(3, "Returns"), Section(3, "Source"), SourceLine(func.line)>>

formatClass(cls) ==
    <<Anchor(getSlug(cls.name)), Heading(2, cls.name), CodeBlock("class")>>
    \o MemberSection("Constructors",
           [i \in 1..Len(cls.constructors) |-> formatMethod(cls.constructors[i], cls.name)])
    \o MemberSection("Properties",
           [i \in 1..Len(cls.properties) |-> formatProperty(cls.properties[i], cls.name)])
    \o MemberSection("Methods",
           [i \in 1..Len(cls.methods) |-> formatMethod(cls.methods[i], cls.name)])
    \o <<Section(3, "Source"), SourceLine(cls.line)>>

formatInterface(iface) ==
    <<Anchor(getSlug(iface.name)), Heading(2, iface.name), CodeBlock("interface")>>
    \o MemberSection("Properties",
           [i \in 1..Len(iface.properties) |-> formatProperty(iface.properties[i], iface.name)])
    \o MemberSection("Methods",
           [i \in 1..Len(iface.methods) |-> formatMethod(iface.methods[i], iface.name)])
    \o <<Section(3, "Source"), SourceLine(iface.line)>>

formatEnum(enumDoc) ==
    <<Anchor(getSlug(enumDoc.name)), Heading(2, enumDoc.name), CodeBlock("enum"),
      Section(3, "Source"), SourceLine(enumDoc.line)>>

formatTypeAlias(typeAlias) ==
    <<Anchor(getSlug(typeAlias.name)), Heading(2, typeAlias.name), CodeBlock("type"),
      Section(3, "Source"), SourceLine(typeAlias.line)>>

FormatItem(item) ==
    CASE item.kind = "function" -> formatFunction(item)
      [] item.kind = "class" -> formatClass(item)
      [] item.kind = "interface" -> formatInterface(item)
      [] item.kind = "enum" -> formatEnum(item)
      [] item.kind = "typeAlias" -> formatTypeAlias(item)
      [] OTHER -> <<>>

FormatMarkdownTocUnsorted(its, depth) ==
    LET sortedItems == SortItems(its)
    IN  formatTableOfContents(its, depth)
        \o Flatten([i \in 1..Len(sortedItems) |-> FormatItem(sortedItems[i])])

formatMarkdown(its, depth) ==
    LET sortedItems == SortItems(its)
    IN  formatTableOfContents(sortedItems, depth)
        \o Flatten([i \in 1..Len(sortedItems) |-> FormatItem(sortedItems[i])])

\* a.name.localeCompare and getSlug's text.toLowerCase throw a TypeError on undefined
FormatMarkdownThrows(its) == \E i \in 1..Len(its) : its[i].name = Undefined

(***************************************************************************)
(* Specification of formatMarkdown: one call on every sequence of up to    *)
(* MaxItems items of the five top-level kinds, the kinds that              *)
(* extractDocumentation returns.                                           *)
(***************************************************************************)
ItemNames == {<<"a">>, <<"A">>, <<"B">>}
PropertyLists == {<<>>, <<[name |-> <<"x">>]>>}
MethodLists == {<<>>, <<[name |-> <<"m">>]>>}
ConstructorMethod == [name |-> ConstructorName]

ItemShapes ==
    {[kind |-> "class", name |-> n, properties |-> p, methods |-> m,
      constructors |-> IF p = <<>> THEN <<>> ELSE <<ConstructorMethod>>] :
        n \in ItemNames, p \in PropertyLists, m \in MethodLists}
    \cup {[kind |-> "interface", name |-> n, properties |-> p, methods |-> m,
           constructors |-> <<>>] :
        n \in ItemNames, p \in PropertyLists, m \in MethodLists}
    \cup {[kind |-> k, name |-> n, properties |-> <<>>, methods |-> <<>>,
           constructors |-> <<>>] :
        k \in {"function", "enum", "typeAlias"}, n \in ItemNames}

\* the i-th item of the input is declared at line i
WithLines(shapes) ==
    [i \in 1..Len(shapes) |->
        [kind |-> shapes[i].kind, name |-> shapes[i].name, line |-> i,
         properties |-> shapes[i].properties, methods |-> shapes[i].methods,
         constructors |-> shapes[i].constructors]]

FormatInit ==
    /\ \E n \in 0..MaxItems : \E shapes \in [1..n -> ItemShapes] : items = WithLines(shapes)
    /\ tocDepth \in 1..MaxTocDepth
    /\ markdown = <<>>
    /\ raised = FALSE
    /\ includeTypes = TRUE
    /\ calls = <<>>
    /\ pc = "format"
    /\ file = <<>>
    /\ text = <<>>
    /\ slug = NoResult
    /\ reslug = NoResult
    /\ IoIdle

FormatMarkdownRemembering ==
    /\ pc = "format"
    /\ LET kept == IF calls = <<>> THEN <<>> ELSE calls[Len(calls)].items
       IN  IF FormatMarkdownThrows(items)
           THEN raised' = TRUE /\ markdown' = <<>>
           ELSE raised' = raised /\ markdown' = formatMarkdown(kept \o items, tocDepth)
    /\ pc' = "done"
    /\ UNCHANGED <<file, items, tocDepth, includeTypes, calls>>
    /\ UNCHANGED slugVars
    /\ UNCHANGED ioVars

FormatMarkdown ==
    /\ pc = "format"
    /\ IF FormatMarkdownThrows(items)
       THEN raised' = TRUE /\ markdown' = <<>>
       ELSE raised' = raised /\ markdown' = formatMarkdown(items, tocDepth)
    /\ pc' = "done"
    /\ UNCHANGED <<file, items, tocDepth, includeTypes, calls>>
    /\ UNCHANGED slugVars
    /\ UNCHANGED ioVars

FormatNext == FormatMarkdown

SpecFormat == FormatInit /\ [][FormatNext]_vars

(***************************************************************************)
(* Reading a rendered document back: its links, anchors and blocks.        *)
(***************************************************************************)
\* the positions of the document whose line satisfies Test, in document order
PositionsOf(doc, Test(_)) ==
    LET Hit(i) == Test(doc[i]) IN SelectSeq([i \in 1..Len(doc) |-> i], Hit)

IsTocLink(l) == l.t = "tocLink"
IsTopTocLink(l) == l.t = "tocLink" /\ l.level = 1
IsSubTocLink(l) == l.t = "tocLink" /\ l.level = 2
IsAnchor(l) == l.t = "anchor"

\* an anchor stands right before the heading of its block
HeadingAfter(doc, i) == doc[i + 1]
ItemAnchorPositions(doc) ==
    LET Hit(i) == doc[i].t = "anchor" /\ HeadingAfter(doc, i).level = 2
    IN  SelectSeq([i \in 1..Len(doc) |-> i], Hit)
\* anchors of properties and methods (level-4 blocks other than constructors)
MemberAnchorPositions(doc) ==
    LET Hit(i) == /\ doc[i].t = "anchor"
                  /\ HeadingAfter(doc, i).level = 4
                  /\ HeadingAfter(doc, i).text # ConstructorName
    IN  SelectSeq([i \in 1..Len(doc) |-> i], Hit)

\* the last position before i whose line satisfies Test (0 when there is none)
LastBefore(doc, i, Test(_)) ==
    IF \E j \in 1..(i - 1) : Test(doc[j])
    THEN CHOOSE j \in 1..(i - 1) : Test(doc[j]) /\ \A k \in (j + 1)..(i - 1) : ~Test(doc[k])
    ELSE 0

IsItemHeading(l) == l.t = "heading" /\ l.level = 2
\* the name of the item whose block holds position i
ParentNameInBody(doc, i) == doc[LastBefore(doc, i, IsItemHeading)].text
\* the name of the top-level entry above the nested entry at position i
ParentNameInToc(doc, i) == doc[LastBefore(doc, i, IsTopTocLink)].text

RECURSIVE IsSubsequence(_, _)
IsSubsequence(a, b) ==
    IF a = <<>> THEN TRUE
    ELSE IF b = <<>> THEN FALSE
    ELSE IF Head(a) = Head(b) THEN IsSubsequence(Tail(a), Tail(b))
    ELSE IsSubsequence(a, Tail(b))

Rendered == pc = "done" /\ ~raised

\* C1: the fragment of every table-of-contents link equals the id of the anchor
\* at the heading of the same item (slug(name)) or, for tocDepth > 1, of the same
\* property or method (slug(parentName-memberName)).
TocFragmentEqualsAnchor ==
    Rendered =>
        LET top == PositionsOf(markdown, IsTopTocLink)
            sub == PositionsOf(markdown, IsSubTocLink)
            itemAnchors == ItemAnchorPositions(markdown)
            memberAnchors == MemberAnchorPositions(markdown)
        IN  /\ Len(top) = Len(items)
            /\ Len(itemAnchors) = Len(items)
            /\ \A k \in 1..Len(top) :
                  /\ markdown[top[k]].text = HeadingAfter(markdown, itemAnchors[k]).text
                  /\ markdown[top[k]].frag = markdown[itemAnchors[k]].id
                  /\ markdown[top[k]].frag = ClaimedSlug(markdown[top[k]].text)
            /\ tocDepth > 1 =>
                  /\ Len(sub) = Len(memberAnchors)
                  /\ \A k \in 1..Len(sub) :
                        /\ markdown[sub[k]].text = HeadingAfter(markdown, memberAnchors[k]).text
                        /\ ParentNameInToc(markdown, sub[k])
                              = ParentNameInBody(markdown, memberAnchors[k])
                        /\ markdown[sub[k]].frag = markdown[memberAnchors[k]].id
                        /\ markdown[sub[k]].frag
                              = ClaimedSlug(ParentNameInToc(markdown, sub[k]) \o <<Hyphen>>
                                            \o markdown[sub[k]].text)

\* C1 witness: a document with nested entries for a property and a method, whose
\* names are changed by slugging
TocFragmentEqualsAnchorWitness ==
    /\ Rendered
    /\ tocDepth > 1
    /\ Len(PositionsOf(markdown, IsSubTocLink)) >= 3
    /\ \E i \in 1..Len(markdown) :
          /\ IsSubTocLink(markdown[i])
          /\ markdown[i].frag # ParentNameInToc(markdown, i) \o <<Hyphen>> \o markdown[i].text

ClaimedKindPriority(kind) ==
    CASE kind = "class" -> 1
      [] kind = "interface" -> 2
      [] kind = "function" -> 3
      [] kind = "typeAlias" -> 4
      [] kind = "enum" -> 5

ClaimedBefore(a, b) ==
    \/ ClaimedKindPriority(a.kind) < ClaimedKindPriority(b.kind)
    \/ a.kind = b.kind /\ localeCompare(a.name, b.name) < 0

KindOfKeyword(keyword) == IF keyword = "type" THEN "typeAlias" ELSE keyword

KindOfHeading(title) ==
    CASE title = "Classes" -> "class"
      [] title = "Interfaces" -> "interface"
      [] title = "Functions" -> "function"
      [] title = "Type Aliases" -> "typeAlias"
      [] title = "Enums" -> "enum"
      [] OTHER -> "other"

IsKindHeading(l) == l.t = "kindHeading"
IsSourceLine(l) == l.t = "source"

\* the blocks of the body in document order: kind (from the declaration keyword),
\* name (from the heading) and source line
BodyBlocks(doc) ==
    LET at == ItemAnchorPositions(doc)
        SourceAfter(i) ==
            CHOOSE j \in (i + 1)..Len(doc) :
                IsSourceLine(doc[j]) /\ \A k \in (i + 1)..(j - 1) : ~IsSourceLine(doc[k])
    IN  [k \in 1..Len(at) |->
            [kind |-> KindOfKeyword(doc[at[k] + 2].keyword),
             name |-> doc[at[k] + 1].text,
             line |-> doc[SourceAfter(at[k])].line]]

\* the top-level entries of the table of contents in document order
TocEntries(doc) ==
    LET at == PositionsOf(doc, IsTopTocLink)
    IN  [k \in 1..Len(at) |->
            [kind |-> KindOfHeading(doc[LastBefore(doc, at[k], IsKindHeading)].title),
             name |-> doc[at[k]].text]]

BlockOfLine(blocks, line) == CHOOSE k \in 1..Len(blocks) : blocks[k].line = line

\* C3: items are rendered by kind in the priority Class < Interface < Function <
\* TypeAlias < Enum and by ascending name within a kind: an input item that is
\* before another in that order precedes it in the body and in the table of contents.
RenderedInKindAndNameOrder ==
    Rendered =>
        LET blocks == BodyBlocks(markdown)
            entries == TocEntries(markdown)
        IN  /\ Len(blocks) = Len(items)
            /\ \A i \in 1..Len(items) :
                  \E k \in 1..Len(blocks) :
                      /\ blocks[k].line = items[i].line
                      /\ blocks[k].kind = items[i].kind
                      /\ blocks[k].name = items[i].name
            /\ \A i, j \in 1..Len(items) :
                  ClaimedBefore(items[i], items[j]) =>
                      BlockOfLine(blocks, items[i].line) < BlockOfLine(blocks, items[j].line)
            /\ entries = [k \in 1..Len(blocks) |->
                             [kind |-> blocks[k].kind, name |-> blocks[k].name]]

\* C3 witness: the input holds function "B" before function "A", and the body
\* starts with the block of "A"
RenderedInKindAndNameOrderWitness ==
    /\ Rendered
    /\ \E i, j \in 1..Len(items) :
          /\ i < j
          /\ items[i].kind = "function" /\ items[j].kind = "function"
          /\ items[i].name = <<"B">> /\ items[j].name = <<"A">>
          /\ BodyBlocks(markdown)[1].line = items[j].line
(***************************************************************************)
(* The parsed file, as the parsing collaborator (ts-morph) exposes it.     *)
(*                                                                         *)
(* A declaration is a record [kind, name, line, jsDocs, parameters,        *)
(* properties, methods, constructors]: getName() (Undefined for a default  *)
(* export without a name), getStartLineNumber(), getJsDocs(),              *)
(* getParameters() (their names), getProperties(), getMethods() and        *)
(* getConstructors().  A comment block is [description, tags]; a tag is    *)
(* [tagName, text, comment]: getTagName(), getText() and the outcome of    *)
(* getComment(), which is a string, nothing (undefined or ""), or an       *)
(* exception.                                                              *)
(***************************************************************************)
CommentThrows == <<"THROWS">>   \* getComment() throws
CommentNone == <<>>             \* getComment() returns undefined or ""

\* String.prototype.trim
RECURSIVE TrimStart(_)
TrimStart(s) == IF s # <<>> /\ Head(s) \in WhiteSpace THEN TrimStart(Tail(s)) ELSE s

RECURSIVE TrimEnd(_)
TrimEnd(s) ==
    IF s # <<>> /\ s[Len(s)] \in WhiteSpace THEN TrimEnd(SubSeq(s, 1, Len(s) - 1)) ELSE s

Trim(s) == TrimEnd(TrimStart(s))

\* the length of the longest prefix of s made of characters of class
RECURSIVE PrefixRun(_, _)
PrefixRun(s, class) ==
    IF s # <<>> /\ Head(s) \in class THEN 1 + PrefixRun(Tail(s), class) ELSE 0

Drop(s, n) == SubSeq(s, n + 1, Len(s))

\* PARAM_NAME_REGEX = /^(\w+)(?:\s+.*)?$/ : the leading word, when the text is
\* that word alone or that word followed by whitespace; <<>> when it does not match
ParamNameOf(tagText) ==
    LET n == PrefixRun(tagText, WordChars)
    IN  IF n > 0 /\ (n = Len(tagText) \/ tagText[n + 1] \in WhiteSpace)
        THEN SubSeq(tagText, 1, n)
        ELSE <<>>

\* tagText.replace(/^\w+\s*/, "")
StripLeadingWord(tagText) ==
    LET n == PrefixRun(tagText, WordChars)
    IN  IF n > 0 THEN Drop(tagText, n + PrefixRun(Drop(tagText, n), WhiteSpace)) ELSE tagText

TagInfoKeepsName(tag) ==
    LET comment == IF tag.comment = CommentThrows THEN Trim(tag.text) ELSE tag.comment
    IN  IF tag.tagName = "param"
        THEN [tag |-> "param", name |-> ParamNameOf(tag.text), description |-> Trim(comment)]
        ELSE [tag |-> tag.tagName, name |-> <<>>, description |-> Trim(comment)]

\* one entry of JSDocInfo.tags
TagInfo(tag) ==
    LET comment ==
            IF tag.comment = CommentThrows
            THEN IF tag.tagName = "param" THEN Trim(StripLeadingWord(tag.text))
                 ELSE Trim(tag.text)
            ELSE tag.comment
    IN  IF tag.tagName = "param"
        THEN [tag |-> "param", name |-> ParamNameOf(tag.text), description |-> Trim(comment)]
        ELSE [tag |-> tag.tagName, name |-> <<>>, description |-> Trim(comment)]

NoJSDocInfo == [present |-> FALSE, description |-> Undefined, tags |-> <<>>]

ExtractJSDocInfoLastBlock(jsDocs) ==
    IF jsDocs = <<>> THEN NoJSDocInfo
    ELSE LET jsDoc == jsDocs[Len(jsDocs)]
         IN  [present |-> TRUE, description |-> jsDoc.description,
              tags |-> [i \in 1..Len(jsDoc.tags) |-> TagInfo(jsDoc.tags[i])]]

extractJSDocInfo(jsDocs) ==
    IF jsDocs = <<>> THEN NoJSDocInfo
    ELSE LET jsDoc == jsDocs[1]
         IN  [present |-> TRUE, description |-> jsDoc.description,
              tags |-> [i \in 1..Len(jsDoc.tags) |-> TagInfo(jsDoc.tags[i])]]

\* getJsDocs()?.[0]?.getDescription()?.trim()
DescriptionOf(jsDocs) == IF jsDocs = <<>> THEN Undefined ELSE Trim(jsDocs[1].description)

(***************************************************************************)
(* new RegExp("(?:@param\\s+)?(NAME)\\b\\s*(.+)?", "i") matched against a  *)
(* tag's text: the pattern is not anchored, so the leftmost place of the   *)
(* text where it matches decides.                                          *)
(***************************************************************************)
ParamMarker == <<"@", "p", "a", "r", "a", "m">>

IsWordAt(t, i) == i >= 1 /\ i <= Len(t) /\ t[i] \in WordChars
\* \b between positions e and e + 1
WordBoundaryAfter(t, e) == IsWordAt(t, e) # IsWordAt(t, e + 1)
\* the first position from i on that holds no whitespace (Len(t) + 1 at the end)
SkipWhitespace(t, i) == i + PrefixRun(Drop(t, i - 1), WhiteSpace)

\* (NAME)\b at position q, under the i flag
NameAt(t, q, name) ==
    /\ q + Len(name) - 1 <= Len(t)
    /\ ToLowerCase(SubSeq(t, q, q + Len(name) - 1)) = ToLowerCase(name)
    /\ WordBoundaryAfter(t, q + Len(name) - 1)

\* where group 1 starts when the pattern matches from position s on, else 0
MatchStartingAt(t, s, name) ==
    LET afterMarker == s + Len(ParamMarker)
        q == SkipWhitespace(t, afterMarker)
    IN  IF /\ afterMarker - 1 <= Len(t)
           /\ ToLowerCase(SubSeq(t, s, afterMarker - 1)) = ParamMarker
           /\ q > afterMarker
           /\ NameAt(t, q, name)
        THEN q
        ELSE IF NameAt(t, s, name) THEN s ELSE 0

\* tagText.match(paramRegex): found, match[1] and match[2] (<<>> when undefined)
ParamRegexMatch(t, name) ==
    LET starts == {s \in 1..Len(t) : MatchStartingAt(t, s, name) # 0}
    IN  IF starts = {} THEN [found |-> FALSE, name |-> <<>>, rest |-> <<>>]
        ELSE LET s == CHOOSE x \in starts : \A y \in starts : x <= y
                 q == MatchStartingAt(t, s, name)
                 e == q + Len(name) - 1
             IN  [found |-> TRUE,
                  name |-> SubSeq(t, q, e),
                  rest |-> Drop(t, SkipWhitespace(t, e + 1) - 1)]

\* what one tag makes extractParameterDescription return, if anything
DescriptionFromTag(tag, paramName) ==
    LET match == ParamRegexMatch(tag.text, paramName)
        nothing == [returns |-> FALSE, value |-> <<>>]
    IN  IF tag.tagName # "param" THEN nothing
        ELSE IF ~(match.found /\ match.name = paramName) THEN nothing
        ELSE IF tag.comment # CommentThrows /\ tag.comment # CommentNone
             THEN [returns |-> TRUE, value |-> Trim(tag.comment)]
        ELSE IF match.rest # <<>> THEN [returns |-> TRUE, value |-> Trim(match.rest)]
        ELSE nothing

RECURSIVE FirstDescription(_, _)
FirstDescription(tags, paramName) ==
    IF tags = <<>> THEN <<>>
    ELSE LET r == DescriptionFromTag(Head(tags), paramName)
         IN  IF r.returns THEN r.value ELSE FirstDescription(Tail(tags), paramName)

\* every block of jsDocs is searched, in order
extractParameterDescription(paramName, jsDocs) ==
    FirstDescription(Flatten([b \in 1..Len(jsDocs) |-> jsDocs[b].tags]), paramName)

\* the description of the first parsed tag that is a @param of that name
DescriptionOfParsedTag(jsDocInfo, paramName) ==
    LET Names(tag) == tag.tag = "param" /\ tag.name = paramName
        found == SelectSeq(jsDocInfo.tags, Names)
    IN  IF found = <<>> THEN <<>> ELSE found[1].description

extractParametersWithJSDoc(parameters, jsDocs, jsDocInfo) ==
    [i \in 1..Len(parameters) |->
        LET description == extractParameterDescription(parameters[i], jsDocs)
        IN  [name |-> parameters[i],
             description |-> IF description # <<>> THEN description
                             ELSE DescriptionOfParsedTag(jsDocInfo, parameters[i])]]

(***************************************************************************)
(* The declaration extractors and extractDocumentation.                    *)
(***************************************************************************)
Anonymous == <<"a", "n", "o", "n", "y", "m", "o", "u", "s">>

extractFunctionDoc(func) ==
    [kind |-> "function",
     name |-> IF func.name = Undefined \/ func.name = <<>> THEN Anonymous ELSE func.name,
     line |-> func.line,
     description |-> DescriptionOf(func.jsDocs),
     jsDoc |-> extractJSDocInfo(func.jsDocs),
     parameters |-> extractParametersWithJSDoc(func.parameters, func.jsDocs,
                                               extractJSDocInfo(func.jsDocs)),
     properties |-> <<>>, methods |-> <<>>, constructors |-> <<>>]

extractPropertyDoc(prop) ==
    [name |-> prop.name, description |-> DescriptionOf(prop.jsDocs),
     jsDoc |-> extractJSDocInfo(prop.jsDocs), parameters |-> <<>>]

extractMethodDoc(method) ==
    [name |-> method.name, description |-> DescriptionOf(method.jsDocs),
     jsDoc |-> extractJSDocInfo(method.jsDocs),
     parameters |-> extractParametersWithJSDoc(method.parameters, method.jsDocs,
                                               extractJSDocInfo(method.jsDocs))]

extractConstructorDoc(ctor) ==
    [name |-> ConstructorName, description |-> DescriptionOf(ctor.jsDocs),
     jsDoc |-> extractJSDocInfo(ctor.jsDocs),
     parameters |-> extractParametersWithJSDoc(ctor.parameters, ctor.jsDocs,
                                               extractJSDocInfo(ctor.jsDocs))]

extractClassDoc(cls) ==
    [kind |-> "class",
     name |-> cls.name,
     line |-> cls.line,
     description |-> DescriptionOf(cls.jsDocs),
     jsDoc |-> extractJSDocInfo(cls.jsDocs),
     parameters |-> <<>>,
     properties |-> [i \in 1..Len(cls.properties) |-> extractPropertyDoc(cls.properties[i])],
     methods |-> [i \in 1..Len(cls.methods) |-> extractMethodDoc(cls.methods[i])],
     constructors |->
         [i \in 1..Len(cls.constructors) |-> extractConstructorDoc(cls.constructors[i])]]

extractInterfaceDoc(iface) ==
    [kind |-> "interface",
     name |-> iface.name,
     line |-> iface.line,
     description |-> DescriptionOf(iface.jsDocs),
     jsDoc |-> extractJSDocInfo(iface.jsDocs),
     parameters |-> <<>>,
     properties |-> [i \in 1..Len(iface.properties) |-> extractPropertyDoc(iface.properties[i])],
     methods |-> [i \in 1..Len(iface.methods) |-> extractMethodDoc(iface.methods[i])],
     constructors |-> <<>>]

extractEnumDoc(enumDecl) ==
    [kind |-> "enum",
     name |-> enumDecl.name,
     line |-> enumDecl.line,
     description |-> DescriptionOf(enumDecl.jsDocs),
     jsDoc |-> extractJSDocInfo(enumDecl.jsDocs),
     parameters |-> <<>>, properties |-> <<>>, methods |-> <<>>, constructors |-> <<>>]

extractTypeAliasDoc(typeAlias) ==
    [kind |-> "typeAlias",
     name |-> typeAlias.name,
     line |-> typeAlias.line,
     description |-> DescriptionOf(typeAlias.jsDocs),
     jsDoc |-> extractJSDocInfo(typeAlias.jsDocs),
     parameters |-> <<>>, properties |-> <<>>, methods |-> <<>>, constructors |-> <<>>]

\* sourceFile.getFunctions(), getClasses(), ...: the declarations of one kind,
\* in file order
DeclarationsOf(sourceFile, kind) ==
    LET IsKind(d) == d.kind = kind IN SelectSeq(sourceFile, IsKind)

ExtractDocumentationFileOrder(sourceFile) ==
    [i \in 1..Len(sourceFile) |->
        CASE sourceFile[i].kind = "function" -> extractFunctionDoc(sourceFile[i])
          [] sourceFile[i].kind = "class" -> extractClassDoc(sourceFile[i])
          [] sourceFile[i].kind = "interface" -> extractInterfaceDoc(sourceFile[i])
          [] sourceFile[i].kind = "enum" -> extractEnumDoc(sourceFile[i])
          [] sourceFile[i].kind = "typeAlias" -> extractTypeAliasDoc(sourceFile[i])]

extractDocumentation(sourceFile) ==
    LET functions == DeclarationsOf(sourceFile, "function")
        classes == DeclarationsOf(sourceFile, "class")
        interfaces == DeclarationsOf(sourceFile, "interface")
        enums == DeclarationsOf(sourceFile, "enum")
        typeAliases == DeclarationsOf(sourceFile, "typeAlias")
    IN  [i \in 1..Len(functions) |-> extractFunctionDoc(functions[i])]
        \o [i \in 1..Len(classes) |-> extractClassDoc(classes[i])]
        \o [i \in 1..Len(interfaces) |-> extractInterfaceDoc(interfaces[i])]
        \o [i \in 1..Len(enums) |-> extractEnumDoc(enums[i])]
        \o [i \in 1..Len(typeAliases) |-> extractTypeAliasDoc(typeAliases[i])]

(***************************************************************************)
(* The pipeline of the generator on one parsed file: extractDocumentation, *)
(* then formatMarkdown on the extracted items.                             *)
(***************************************************************************)
ExtractDocumentation ==
    /\ pc = "extract"
    /\ items' = extractDocumentation(file)
    /\ pc' = "format"
    /\ UNCHANGED <<file, tocDepth, includeTypes, calls, markdown, raised>>
    /\ UNCHANGED slugVars
    /\ UNCHANGED ioVars

PipelineNext == ExtractDocumentation \/ FormatMarkdown

\* the i-th declaration of the file starts at line i
DeclarationsAtLines(shapes) ==
    [i \in 1..Len(shapes) |->
        [kind |-> shapes[i].kind, name |-> shapes[i].name, line |-> i,
         jsDocs |-> shapes[i].jsDocs, parameters |-> shapes[i].parameters,
         properties |-> shapes[i].properties, methods |-> shapes[i].methods,
         constructors |-> shapes[i].constructors]]

PipelineStart ==
    /\ pc = "extract"
    /\ items = <<>>
    /\ markdown = <<>>
    /\ raised = FALSE
    /\ includeTypes = TRUE
    /\ calls = <<>>
    /\ text = <<>>
    /\ slug = NoResult
    /\ reslug = NoResult
    /\ IoIdle

(***************************************************************************)
(* Specification of the pipeline over every file of up to MaxDecls         *)
(* declarations: named and unnamed (default-export) functions and classes, *)
(* with and without a comment whose tag's comment accessor throws.         *)
(***************************************************************************)
ThrowingBlock ==
    [description |-> <<"d">>,
     tags |-> <<[tagName |-> "param", text |-> <<"a", " ", "x">>, comment |-> CommentThrows]>>]

NoMembers == [properties |-> <<>>, methods |-> <<>>, constructors |-> <<>>]
SomeMembers ==
    [properties |-> <<[name |-> <<"x">>, jsDocs |-> <<>>]>>,
     methods |-> <<[name |-> <<"m">>, jsDocs |-> <<>>, parameters |-> <<>>]>>,
     constructors |-> <<[jsDocs |-> <<>>, parameters |-> << <<"a">> >>]>>]

DeclarationShapes ==
    {[kind |-> "function", name |-> n, jsDocs |-> j, parameters |-> << <<"a">> >>,
      properties |-> <<>>, methods |-> <<>>, constructors |-> <<>>] :
        n \in {Undefined, <<"a">>}, j \in {<<>>, <<ThrowingBlock>>}}
    \cup {[kind |-> "class", name |-> n, jsDocs |-> <<>>, parameters |-> <<>>,
           properties |-> m.properties, methods |-> m.methods,
           constructors |-> m.constructors] :
        n \in {Undefined, <<"A">>}, m \in {NoMembers, SomeMembers}}
    \cup {[kind |-> "interface", name |-> <<"B">>, jsDocs |-> <<>>, parameters |-> <<>>,
           properties |-> m.properties, methods |-> m.methods, constructors |-> <<>>] :
        m \in {NoMembers, SomeMembers}}
    \cup {[kind |-> k, name |-> <<"e">>, jsDocs |-> <<>>, parameters |-> <<>>,
           properties |-> <<>>, methods |-> <<>>, constructors |-> <<>>] :
        k \in {"enum", "typeAlias"}}

ExtractInit ==
    /\ \E n \in 0..MaxDecls :
          \E shapes \in [1..n -> DeclarationShapes] : file = DeclarationsAtLines(shapes)
    /\ tocDepth \in 1..MaxTocDepth
    /\ PipelineStart

SpecExtract == ExtractInit /\ [][PipelineNext]_vars

(***************************************************************************)
(* Specification of the pipeline over one function m(a, b) with up to      *)
(* MaxBlocks comment blocks holding up to MaxTags tags in all.             *)
(***************************************************************************)
Descriptions == {<<"d">>, <<" ", "e">>}
ParamTexts == {<<"a", " ", "x">>, <<"b", " ", "a">>}
Comments == {CommentThrows, CommentNone, <<"c", " ">>}

TagUniverse ==
    {[tagName |-> "param", text |-> t, comment |-> c] : t \in ParamTexts, c \in Comments}
    \cup {[tagName |-> "param", text |-> ParamMarker \o <<" ", "a", " ", "x">>,
           comment |-> CommentNone],
          [tagName |-> "param", text |-> <<"a">>, comment |-> CommentNone],
          [tagName |-> "returns", text |-> <<"x">>, comment |-> <<"c">>],
          [tagName |-> "returns", text |-> <<"x", " ">>, comment |-> CommentThrows]}

BlocksWith(k) ==
    {[description |-> d, tags |-> ts] : d \in Descriptions, ts \in [1..k -> TagUniverse]}

\* the lists of exactly n blocks that hold at most budget tags in all
RECURSIVE JsDocsOf(_, _)
JsDocsOf(n, budget) ==
    IF n = 0 THEN {<<>>}
    ELSE UNION {{<<b>> \o rest : b \in BlocksWith(k), rest \in JsDocsOf(n - 1, budget - k)} :
                    k \in 0..budget}

ParameterNames == << <<"a">>, <<"b">> >>

JSDocInit ==
    /\ \E n \in 0..MaxBlocks :
          \E j \in JsDocsOf(n, MaxTags) :
              file = <<[kind |-> "function", name |-> <<"m">>, line |-> 1, jsDocs |-> j,
                        parameters |-> ParameterNames,
                        properties |-> <<>>, methods |-> <<>>, constructors |-> <<>>]>>
    /\ tocDepth = 1
    /\ PipelineStart

SpecJSDoc == JSDocInit /\ [][PipelineNext]_vars

(***************************************************************************)
(* Properties of the extraction.                                           *)
(***************************************************************************)
Extracted == pc # "extract"

\* the tags of every comment block of a declaration, in source order
AllTags(decl) == Flatten([b \in 1..Len(decl.jsDocs) |-> decl.jsDocs[b].tags])

\* the parameter identifier a @param tag is written for: the first word of its
\* text, after the tag marker when the text carries it
TagIdentifier(tag) ==
    LET marked == /\ Len(tag.text) > Len(ParamMarker)
                  /\ SubSeq(tag.text, 1, Len(ParamMarker)) = ParamMarker
                  /\ tag.text[Len(ParamMarker) + 1] \in WhiteSpace
        body == IF marked THEN TrimStart(Drop(tag.text, Len(ParamMarker))) ELSE tag.text
    IN  SubSeq(body, 1, PrefixRun(body, WordChars))

IsParamTagFor(tag, paramName) == tag.tagName = "param" /\ TagIdentifier(tag) = paramName

\* C4: a parameter gets a description only from a @param tag whose identifier is
\* the parameter's name; a parameter that no @param tag names gets the empty string.
ParamDescriptionOnlyFromOwnTag ==
    Extracted =>
        \A i \in 1..Len(items[1].parameters) :
            LET param == items[1].parameters[i]
                tags == AllTags(file[1])
            IN  (\A t \in 1..Len(tags) : ~IsParamTagFor(tags[t], param.name))
                    => /\ extractParameterDescription(param.name, file[1].jsDocs) = <<>>
                       /\ param.description = <<>>

KindGroupRank(kind) ==
    CASE kind = "function" -> 1
      [] kind = "class" -> 2
      [] kind = "interface" -> 3
      [] kind = "enum" -> 4
      [] kind = "typeAlias" -> 5

\* C5: extractDocumentation returns exactly one item per top-level declaration,
\* grouped by kind in the order Function, Class, Interface, Enum, TypeAlias and in
\* declaration order within a kind; members are never top-level items.
ExtractedGroupedInFileOrder ==
    Extracted =>
        /\ Len(items) = Len(file)
        /\ \A d \in 1..Len(file) :
              Cardinality({k \in 1..Len(items) :
                              items[k].line = file[d].line /\ items[k].kind = file[d].kind}) = 1
        /\ \A k, l \in 1..Len(items) :
              k < l =>
                  \/ KindGroupRank(items[k].kind) < KindGroupRank(items[l].kind)
                  \/ items[k].kind = items[l].kind /\ items[k].line < items[l].line
        /\ \A d \in 1..Len(file) :
              \A k \in 1..Len(items) :
                  items[k].line = file[d].line =>
                      /\ Len(items[k].properties) = Len(file[d].properties)
                      /\ Len(items[k].methods) = Len(file[d].methods)
                      /\ Len(items[k].constructors) = Len(file[d].constructors)

\* C5 witness: a class with members stands before two functions in the file, and
\* the first extracted item is the function of line 2
ExtractedGroupedInFileOrderWitness ==
    /\ Extracted
    /\ Len(file) = 3
    /\ file[1].kind = "class" /\ file[1].methods # <<>>
    /\ file[2].kind = "function" /\ file[3].kind = "function"
    /\ items[1].line = 2 /\ items[2].line = 3 /\ items[3].line = 1

\* C6: extractDocumentation and the following formatMarkdown complete without
\* raising for every parsed file.
PipelineNeverRaises == ~raised

IsNonEmptyName(name) == name # Undefined /\ name # <<>>

MembersOf(item) == item.parameters \o item.properties \o item.methods \o item.constructors

\* C7: every extracted item and member has a non-empty string as its name, and an
\* unnamed function is named "anonymous".
ExtractedNamesNonEmpty ==
    Extracted =>
        /\ \A k \in 1..Len(items) :
              /\ IsNonEmptyName(items[k].name)
              /\ \A m \in 1..Len(MembersOf(items[k])) :
                    IsNonEmptyName(MembersOf(items[k])[m].name)
        /\ \A d \in 1..Len(file) :
              file[d].kind = "function" /\ file[d].name = Undefined =>
                  \E k \in 1..Len(items) :
                      items[k].line = file[d].line /\ items[k].name = Anonymous

\* the declaration with every comment block after the first removed
WithFirstBlockOnly(decl) ==
    [decl EXCEPT !.jsDocs = IF decl.jsDocs = <<>> THEN <<>> ELSE <<decl.jsDocs[1]>>]

NewLine == "\n"
\* the backquote character, which a string of this language cannot hold
Backquote == "BACKQUOTE"
Fence == <<Backquote, Backquote, Backquote>>

\* list.join(", ")
RECURSIVE JoinComma(_)
JoinComma(list) ==
    IF list = <<>> THEN <<>>
    ELSE IF Len(list) = 1 THEN list[1]
    ELSE list[1] \o <<", ">> \o JoinComma(Tail(list))

\* `<${typeParameters.join(", ")}>` when there are type parameters
TypeParameterList(typeParameters) ==
    IF typeParameters = <<>> THEN <<>> ELSE <<"<">> \o JoinComma(typeParameters) \o <<">">>

\* a JavaScript string that is truthy: neither undefined nor ""
IsTruthy(string) == string # Undefined /\ string # <<>>

SignatureParameterTrailingComma(parameters, i) ==
    <<"  ">> \o parameters[i].name
    \o (IF parameters[i].isOptional THEN <<"?">> ELSE <<>>)
    \o <<": ">> \o parameters[i].type
    \o (IF IsTruthy(parameters[i].defaultValue)
        THEN <<" = ">> \o parameters[i].defaultValue ELSE <<>>)
    \o <<",", NewLine>>

\* the i-th pass of the parameter loop of the signature formatters
SignatureParameter(parameters, i) ==
    <<"  ">> \o parameters[i].name
    \o (IF parameters[i].isOptional THEN <<"?">> ELSE <<>>)
    \o <<": ">> \o parameters[i].type
    \o (IF IsTruthy(parameters[i].defaultValue)
        THEN <<" = ">> \o parameters[i].defaultValue ELSE <<>>)
    \o (IF i < Len(parameters) THEN <<",">> ELSE <<>>)
    \o <<NewLine>>

SignatureParameters(parameters) ==
    IF parameters = <<>> THEN <<>>
    ELSE <<NewLine>>
         \o Flatten([i \in 1..Len(parameters) |-> SignatureParameter(parameters, i)])

formatFunctionSignature(func) ==
    <<"function ">> \o func.name
    \o TypeParameterList(func.typeParameters)
    \o <<"(">> \o SignatureParameters(func.parameters)
    \o <<"): ">> \o func.returnType

formatMethodSignature(method) ==
    (IF method.isStatic THEN <<"static ">> ELSE <<>>)
    \o (IF method.isAsync THEN <<"async ">> ELSE <<>>)
    \o method.name
    \o TypeParameterList(method.typeParameters)
    \o <<"(">> \o SignatureParameters(method.parameters)
    \o <<"): ">> \o method.returnType

formatClassDeclaration(cls) ==
    <<"class ">> \o cls.name
    \o TypeParameterList(cls.typeParameters)
    \o (IF IsTruthy(cls.extends) THEN <<" extends ">> \o cls.extends ELSE <<>>)
    \o (IF cls.implements # <<>>
        THEN <<" implements ">> \o JoinComma(cls.implements) ELSE <<>>)
    \o <<" {", NewLine>>
    \o (IF cls.properties # <<>> \/ cls.methods # <<>> \/ cls.constructors # <<>>
        THEN <<"  // Properties, methods, and constructors", NewLine>> ELSE <<>>)
    \o <<"}", NewLine>>

formatInterfaceDeclaration(iface) ==
    <<"interface ">> \o iface.name
    \o TypeParameterList(iface.typeParameters)
    \o (IF iface.extends # <<>> THEN <<" extends ">> \o JoinComma(iface.extends) ELSE <<>>)
    \o <<" {", NewLine>>
    \o (IF iface.properties # <<>> \/ iface.methods # <<>>
        THEN <<"  // Properties and methods", NewLine>> ELSE <<>>)
    \o <<"}", NewLine>>

formatEnumDeclaration(enumDoc) ==
    <<"enum ">> \o enumDoc.name \o <<" {", NewLine>>
    \o Flatten([i \in 1..Len(enumDoc.members) |->
           <<"  ">> \o enumDoc.members[i].name
           \o (IF enumDoc.members[i].value # Undefined
               THEN <<" = ">> \o enumDoc.members[i].value ELSE <<>>)
           \o <<",", NewLine>>])
    \o <<"}", NewLine>>

formatTypeAliasDeclaration(typeAlias) ==
    <<"type ">> \o typeAlias.name
    \o TypeParameterList(typeAlias.typeParameters)
    \o <<" = ">> \o typeAlias.type \o <<";", NewLine>>

formatPropertyDeclaration(prop, options) ==
    (IF prop.isStatic THEN <<"static ">> ELSE <<>>)
    \o (IF prop.isReadonly THEN <<"readonly ">> ELSE <<>>)
    \o prop.name
    \o (IF prop.isOptional THEN <<"?">> ELSE <<>>)
    \o (IF options.includeTypes THEN <<": ">> \o prop.type ELSE <<>>)
    \o <<";", NewLine>>

\* the opening fence with the default language, the code, the closing fence
formatCodeBlock(code) ==
    Fence \o <<"typescript", NewLine>> \o code \o Fence \o <<NewLine, NewLine>>

formatItemHeader(name, level) ==
    <<"<a id=\"">> \o getSlug(name) \o <<"\"></a>", NewLine, NewLine>>
    \o [i \in 1..level |-> "#"] \o <<" ">> \o name \o <<NewLine, NewLine>>

formatDescription(description) ==
    IF IsTruthy(description) THEN description \o <<NewLine, NewLine>> ELSE <<>>

\* path.basename: what follows the last "/"
RECURSIVE Basename(_)
Basename(filePath) ==
    IF filePath = <<>> THEN <<>>
    ELSE IF filePath[Len(filePath)] = "/" THEN <<>>
    ELSE Basename(SubSeq(filePath, 1, Len(filePath) - 1)) \o <<filePath[Len(filePath)]>>

formatSourceLocation(location) ==
    <<"### Source", NewLine, NewLine, "[">> \o Basename(location.filePath)
    \o <<":", ToString(location.line), "](">> \o location.filePath
    \o <<"#L", ToString(location.line), ")", NewLine, NewLine>>

\* one bullet per parameter, then an empty line
formatParameters(parameters, options) ==
    Flatten([i \in 1..Len(parameters) |->
        <<"- ", Backquote>> \o parameters[i].name
        \o (IF parameters[i].isOptional THEN <<"?">> ELSE <<>>)
        \o (IF options.includeTypes THEN <<": ">> \o parameters[i].type ELSE <<>>)
        \o <<Backquote>>
        \o (IF IsTruthy(parameters[i].defaultValue)
            THEN <<" (default: ", Backquote>> \o parameters[i].defaultValue
                 \o <<Backquote, ")">>
            ELSE <<>>)
        \o (IF IsTruthy(parameters[i].description)
            THEN <<" - ">> \o parameters[i].description ELSE <<>>)
        \o <<NewLine>>])
    \o <<NewLine>>

\* the anchor of a member: getSlug(`${parentName}-${member.name}`)
MemberHeader(member, parentName) ==
    <<"<a id=\"">> \o MemberSlug(parentName, member.name) \o <<"\"></a>", NewLine, NewLine>>
    \o <<"#### ">> \o member.name \o <<NewLine, NewLine>>

PropertyText(prop, parentName, options) ==
    MemberHeader(prop, parentName)
    \o formatDescription(prop.description)
    \o formatCodeBlock(formatPropertyDeclaration(prop, options))

MethodText(method, parentName, options) ==
    MemberHeader(method, parentName)
    \o formatDescription(method.description)
    \o formatCodeBlock(formatMethodSignature(method))
    \o (IF method.parameters # <<>>
        THEN <<"##### Parameters", NewLine, NewLine>>
             \o formatParameters(method.parameters, options)
        ELSE <<>>)
    \o <<"##### Returns", NewLine, NewLine, Backquote>> \o method.returnType
    \o <<Backquote, NewLine, NewLine>>

formatEnumMember(member) ==
    <<"#### ">> \o member.name \o <<NewLine, NewLine>>
    \o (IF member.value # Undefined
        THEN <<"Value: ", Backquote>> \o member.value \o <<Backquote, NewLine, NewLine>>
        ELSE <<>>)
    \o formatDescription(member.description)

\* `### ${sectionName}` and the formatted members, nothing when there is none
formatItemCollection(formatted, sectionName) ==
    IF formatted = <<>> THEN <<>>
    ELSE <<"### ", sectionName, NewLine, NewLine>> \o Flatten(formatted)

FunctionText(func, options) ==
    formatItemHeader(func.name, 2)
    \o formatDescription(func.description)
    \o formatCodeBlock(formatFunctionSignature(func))
    \o (IF func.parameters # <<>>
        THEN <<"### Parameters", NewLine, NewLine>>
             \o formatParameters(func.parameters, options)
        ELSE <<>>)
    \o <<"### Returns", NewLine, NewLine, Backquote>> \o func.returnType
    \o <<Backquote, NewLine, NewLine>>
    \o formatSourceLocation(func.location)

ClassText(cls, options) ==
    formatItemHeader(cls.name, 2)
    \o formatDescription(cls.description)
    \o formatCodeBlock(formatClassDeclaration(cls))
    \o formatItemCollection(
           [i \in 1..Len(cls.constructors) |-> MethodText(cls.constructors[i], cls.name, options)],
           "Constructors")
    \o formatItemCollection(
           [i \in 1..Len(cls.properties) |-> PropertyText(cls.properties[i], cls.name, options)],
           "Properties")
    \o formatItemCollection(
           [i \in 1..Len(cls.methods) |-> MethodText(cls.methods[i], cls.name, options)],
           "Methods")
    \o formatSourceLocation(cls.location)

InterfaceText(iface, options) ==
    formatItemHeader(iface.name, 2)
    \o formatDescription(iface.description)
    \o formatCodeBlock(formatInterfaceDeclaration(iface))
    \o formatItemCollection(
           [i \in 1..Len(iface.properties) |->
               PropertyText(iface.properties[i], iface.name, options)],
           "Properties")
    \o formatItemCollection(
           [i \in 1..Len(iface.methods) |-> MethodText(iface.methods[i], iface.name, options)],
           "Methods")
    \o formatSourceLocation(iface.location)

EnumText(enumDoc, options) ==
    formatItemHeader(enumDoc.name, 2)
    \o formatDescription(enumDoc.description)
    \o formatCodeBlock(formatEnumDeclaration(enumDoc))
    \o formatItemCollection(
           [i \in 1..Len(enumDoc.members) |-> formatEnumMember(enumDoc.members[i])],
           "Members")
    \o formatSourceLocation(enumDoc.location)

TypeAliasText(typeAlias, options) ==
    formatItemHeader(typeAlias.name, 2)
    \o formatDescription(typeAlias.description)
    \o formatCodeBlock(formatTypeAliasDeclaration(typeAlias))
    \o formatSourceLocation(typeAlias.location)

\* the switch on item.kind of formatMarkdown
ItemText(item, options) ==
    CASE item.kind = "function" -> FunctionText(item, options)
      [] item.kind = "class" -> ClassText(item, options)
      [] item.kind = "interface" -> InterfaceText(item, options)
      [] item.kind = "enum" -> EnumText(item, options)
      [] item.kind = "typeAlias" -> TypeAliasText(item, options)
      [] OTHER -> <<>>

(***************************************************************************)
(* Specification of the block formatters: one item of any of the five      *)
(* kinds is rendered under either value of options.includeTypes.           *)
(***************************************************************************)
MaxParams == 2      \* most parameters of one function or method

ParameterShapes ==
    {[name |-> <<"p">>, isOptional |-> o, type |-> <<"T">>, defaultValue |-> d,
      description |-> <<>>] :
        o \in BOOLEAN, d \in {Undefined, <<"1">>}}

ParameterLists == UNION {[1..n -> ParameterShapes] : n \in 0..MaxParams}

TypeParameterLists == {<<>>, << <<"T">> >>, << <<"T">>, <<"U">> >>}

Location == [filePath |-> <<"src", "/", "f.ts">>, line |-> 1]

FunctionShapes ==
    {[kind |-> "function", name |-> <<"a">>, description |-> Undefined,
      typeParameters |-> tp, parameters |-> ps, returnType |-> <<"R">>,
      location |-> Location] :
        tp \in TypeParameterLists, ps \in ParameterLists}

MethodShapes ==
    {[kind |-> "method", name |-> <<"m">>, description |-> Undefined,
      typeParameters |-> tp, parameters |-> ps, returnType |-> <<"R">>,
      isStatic |-> st, isAsync |-> as] :
        tp \in {<<>>, << <<"T">>, <<"U">> >>}, ps \in ParameterLists,
        st \in BOOLEAN, as \in BOOLEAN}

PropertyShapes ==
    {[kind |-> "property", name |-> <<"x">>, description |-> Undefined, type |-> <<"T">>,
      isStatic |-> st, isReadonly |-> ro, isOptional |-> o] :
        st \in BOOLEAN, ro \in BOOLEAN, o \in BOOLEAN}

ConstructorShape ==
    [kind |-> "method", name |-> ConstructorName, description |-> Undefined,
     typeParameters |-> <<>>, parameters |-> <<>>, returnType |-> <<"A">>,
     isStatic |-> FALSE, isAsync |-> FALSE]

OneOrNone(shapes) == {<<>>} \cup {<<shape>> : shape \in shapes}

ClassShapes ==
    {[kind |-> "class", name |-> <<"A">>, description |-> <<"d">>, typeParameters |-> <<>>,
      extends |-> Undefined, implements |-> <<>>,
      properties |-> p, methods |-> m, constructors |-> c, location |-> Location] :
        p \in OneOrNone(PropertyShapes), m \in OneOrNone(MethodShapes),
        c \in OneOrNone({ConstructorShape})}

InterfaceShapes ==
    {[kind |-> "interface", name |-> <<"B">>, description |-> Undefined,
      typeParameters |-> <<>>, extends |-> e,
      properties |-> p, methods |-> <<>>, location |-> Location] :
        e \in {<<>>, << <<"J">> >>}, p \in OneOrNone(PropertyShapes)}

EnumShapes ==
    {[kind |-> "enum", name |-> <<"e">>, description |-> Undefined, members |-> ms,
      location |-> Location] :
        ms \in {<<>>,
                <<[name |-> <<"a">>, value |-> Undefined, description |-> Undefined]>>,
                <<[name |-> <<"a">>, value |-> <<"1">>, description |-> <<"d">>]>>}}

TypeAliasShapes ==
    {[kind |-> "typeAlias", name |-> <<"t">>, description |-> Undefined,
      typeParameters |-> tp, type |-> <<"T">>, location |-> Location] :
        tp \in TypeParameterLists}

BlockInit ==
    /\ \E item \in FunctionShapes \cup ClassShapes \cup InterfaceShapes
                   \cup EnumShapes \cup TypeAliasShapes :
          items = <<item>>
    /\ includeTypes \in BOOLEAN
    /\ tocDepth = 1
    /\ calls = <<>>
    /\ markdown = <<>>
    /\ raised = FALSE
    /\ pc = "block"
    /\ file = <<>>
    /\ text = <<>>
    /\ slug = NoResult
    /\ reslug = NoResult
    /\ IoIdle

\* a call of the block formatter of the item's kind
FormatBlock ==
    /\ pc = "block"
    /\ markdown' = ItemText(items[1], [tocDepth |-> tocDepth, includeTypes |-> includeTypes])
    /\ pc' = "done"
    /\ UNCHANGED <<file, items, tocDepth, includeTypes, calls, raised>>
    /\ UNCHANGED slugVars
    /\ UNCHANGED ioVars

BlockNext == FormatBlock

SpecBlock == BlockInit /\ [][BlockNext]_vars

(***************************************************************************)
(* Properties of the rendered blocks.                                      *)
(***************************************************************************)
BlockRendered == pc = "done" /\ markdown # <<>>

\* sub occurs in whole as a contiguous run of pieces
IsInfix(sub, whole) ==
    \E start \in 0..(Len(whole) - Len(sub)) :
        SubSeq(whole, start + 1, start + Len(sub)) = sub

\* the lines of a text, joined by line breaks
RECURSIVE JoinLines(_)
JoinLines(lines) ==
    IF lines = <<>> THEN <<>>
    ELSE IF Len(lines) = 1 THEN lines[1]
    ELSE lines[1] \o <<NewLine>> \o JoinLines(Tail(lines))

\* `param[?]: Type[ = default]`, indented by two spaces, with a comma unless last
ClaimedParameterLine(parameters, i) ==
    <<"  ">> \o parameters[i].name
    \o (IF parameters[i].isOptional THEN <<"?">> ELSE <<>>)
    \o <<": ">> \o parameters[i].type
    \o (IF parameters[i].defaultValue \notin {Undefined, <<>>}
        THEN <<" = ">> \o parameters[i].defaultValue ELSE <<>>)
    \o (IF i = Len(parameters) THEN <<>> ELSE <<",">>)

ClaimedTypeParameters(typeParameters) ==
    IF typeParameters = <<>> THEN <<>>
    ELSE IF Len(typeParameters) = 1 THEN <<"<">> \o typeParameters[1] \o <<">">>
    ELSE <<"<">> \o typeParameters[1] \o <<", ">> \o typeParameters[2] \o <<">">>

\* the lines of `head(` + parameters + `): ReturnType`
ClaimedSignatureLines(head, doc) ==
    IF doc.parameters = <<>>
    THEN <<head \o ClaimedTypeParameters(doc.typeParameters) \o <<"(", "): ">> \o doc.returnType>>
    ELSE <<head \o ClaimedTypeParameters(doc.typeParameters) \o <<"(">>>>
         \o [i \in 1..Len(doc.parameters) |-> ClaimedParameterLine(doc.parameters, i)]
         \o <<<<"): ">> \o doc.returnType>>

\* `[static ][async ]name`
ClaimedMethodHead(method) ==
    (IF method.isStatic THEN <<"static ">> ELSE <<>>)
    \o (IF method.isAsync THEN <<"async ">> ELSE <<>>)
    \o method.name

\* the code block of the document that opens with these lines holds nothing else
IsWholeCodeBlock(lines) ==
    \/ IsInfix(Fence \o <<"typescript", NewLine>> \o JoinLines(lines) \o Fence, markdown)
    \/ IsInfix(Fence \o <<"typescript", NewLine>> \o JoinLines(lines) \o <<NewLine>> \o Fence,
               markdown)

MethodsOf(item) ==
    IF item.kind \in {"class", "interface"}
    THEN item.methods \o (IF item.kind = "class" THEN item.constructors ELSE <<>>)
    ELSE <<>>

MethodSignaturesAsClaimed ==
    \A i \in 1..Len(MethodsOf(items[1])) :
        LET method == MethodsOf(items[1])[i]
        IN  /\ formatMethodSignature(method)
                  = JoinLines(ClaimedSignatureLines(ClaimedMethodHead(method), method))
            /\ IsWholeCodeBlock(ClaimedSignatureLines(ClaimedMethodHead(method), method))

LineStarts == {1} \cup {i + 1 : i \in {j \in 1..Len(markdown) : markdown[j] = NewLine}}

\* the line that starts at position start: the pieces up to the next line break
LineAt(start) ==
    LET breaks == {j \in start..Len(markdown) : markdown[j] = NewLine}
        end == IF breaks = {} THEN Len(markdown) + 1
               ELSE CHOOSE j \in breaks : \A k \in breaks : j <= k
    IN  SubSeq(markdown, start, end - 1)

RenderedLines == {LineAt(start) : start \in LineStarts}

\* a line of a signature code block that holds a parameter
IsSignatureParameterLine(line) ==
    /\ items[1].kind \in {"function", "class", "interface"}
    /\ line # <<>>
    /\ line[1] = "  "

\* a bullet of a "Parameters" section
IsParameterBullet(line) == line # <<>> /\ line[1] = "- "

\* the declaration line of a property code block
IsPropertyDeclarationLine(line) ==
    /\ items[1].kind \in {"class", "interface"}
    /\ line # <<>>
    /\ line[Len(line)] = ";"

HasTypeSuffix(line) == \E i \in 1..Len(line) : line[i] = ": "

\* C12: with options.includeTypes false no parameter bullet, property declaration
\* or parameter line of a function or method signature carries a `: Type` suffix,
\* and with options.includeTypes true each of them does.
IncludeTypesDecidesTypeSuffix ==
    BlockRendered =>
        \A line \in RenderedLines :
            \/ IsSignatureParameterLine(line)
            \/ IsParameterBullet(line)
            \/ IsPropertyDeclarationLine(line)
            => (HasTypeSuffix(line) <=> includeTypes)

\* the positions of the document where three backquotes stand in a row
FencePositions ==
    {i \in 1..(Len(markdown) - 2) : SubSeq(markdown, i, i + 2) = Fence}

IsOpeningFenceLine(line) == line = Fence \o <<"typescript">>
IsClosingFenceLine(line) == line = Fence

\* C13: every code block of a rendered block is well formed: its opening fence is
\* a line ```typescript, its closing fence ``` stands at the start of a line of
\* its own after the last line of the signature, and fences open and close in turn.
CodeBlocksWellFormed ==
    BlockRendered =>
        /\ FencePositions # {}
        /\ \A i \in FencePositions :
              LET earlier == Cardinality({j \in FencePositions : j < i})
              IN  /\ i \in LineStarts
                  /\ IF earlier % 2 = 0 THEN IsOpeningFenceLine(LineAt(i))
                     ELSE IsClosingFenceLine(LineAt(i))
        /\ Cardinality(FencePositions) % 2 = 0

(***************************************************************************)
(* Properties of the table of contents.                                    *)
(***************************************************************************)
ClaimedGroupHeading(kind) ==
    CASE kind = "class" -> "Classes"
      [] kind = "interface" -> "Interfaces"
      [] kind = "function" -> "Functions"
      [] kind = "typeAlias" -> "Type Aliases"
      [] kind = "enum" -> "Enums"

TopLevelKinds == {"class", "interface", "function", "typeAlias", "enum"}

\* how many lines of the document are the heading of the kind's group
GroupHeadingCount(kind) ==
    Cardinality({p \in 1..Len(markdown) :
                    /\ markdown[p].t = "kindHeading"
                    /\ markdown[p].title = ClaimedGroupHeading(kind)})

\* C14: the table of contents holds the heading of a kind group exactly once when
\* the input has an item of that kind and not at all otherwise; for the empty
\* input the document is the "# Table of Contents" heading alone.
GroupHeadingIffKindPresent ==
    Rendered =>
        /\ \A kind \in TopLevelKinds :
              GroupHeadingCount(kind)
                  = IF \E i \in 1..Len(items) : items[i].kind = kind THEN 1 ELSE 0
        /\ Cardinality({p \in 1..Len(markdown) : markdown[p].t = "tocTitle"}) = 1
        /\ markdown[1].t = "tocTitle"
        /\ items = <<>> => Len(markdown) = 1

\* C14 witness: two items of one kind and a third kind absent, one heading rendered
GroupHeadingIffKindPresentWitness ==
    /\ Rendered
    /\ Len(items) = 2
    /\ items[1].kind = "class" /\ items[2].kind = "class"
    /\ GroupHeadingCount("class") = 1
    /\ GroupHeadingCount("function") = 0

IsNestedTocLine(l) == l.t = "tocSection" \/ IsSubTocLink(l)

\* the nested lines right below the top-level entry at position p, each read as
\* a sub-list title or a member entry
NestedBelow(doc, p) ==
    LET others == {q \in (p + 1)..Len(doc) : ~IsNestedTocLine(doc[q])}
        end == IF others = {} THEN Len(doc) + 1
               ELSE CHOOSE q \in others : \A r \in others : q <= r
    IN  [k \in 1..(end - p - 1) |->
            IF doc[p + k].t = "tocSection"
            THEN [isTitle |-> TRUE, label |-> <<doc[p + k].title>>]
            ELSE [isTitle |-> FALSE, label |-> doc[p + k].text]]

ClaimedSubList(title, members) ==
    IF members = <<>> THEN <<>>
    ELSE <<[isTitle |-> TRUE, label |-> <<title>>]>>
         \o [i \in 1..Len(members) |-> [isTitle |-> FALSE, label |-> members[i].name]]

ClaimedNested(item, depth) ==
    IF depth > 1 /\ item.kind \in {"class", "interface"}
    THEN ClaimedSubList("Properties", item.properties)
         \o ClaimedSubList("Methods", item.methods)
    ELSE <<>>

\* C15: the table of contents has exactly one top-level entry per item; with
\* tocDepth = 1 nothing is nested, and with tocDepth > 1 the entry of a class or
\* interface is followed by a "Properties" sub-list with one entry per property
\* and a "Methods" sub-list with one entry per method, each left out exactly when
\* the collection is empty, while entries of other kinds have no sub-list.
TocNestingFollowsDepth ==
    Rendered =>
        LET top == PositionsOf(markdown, IsTopTocLink)
            entries == TocEntries(markdown)
        IN  /\ Len(top) = Len(items)
            /\ \E perm \in {f \in [1..Len(items) -> 1..Len(items)] :
                               \A i, j \in 1..Len(items) : f[i] = f[j] => i = j} :
                  \A k \in 1..Len(items) :
                      /\ entries[k].kind = items[perm[k]].kind
                      /\ entries[k].name = items[perm[k]].name
                      /\ NestedBelow(markdown, top[k]) = ClaimedNested(items[perm[k]], tocDepth)
            /\ \A q \in 1..Len(markdown) :
                  IsNestedTocLine(markdown[q]) =>
                      IsTopTocLink(markdown[q - 1]) \/ IsNestedTocLine(markdown[q - 1])
            /\ tocDepth = 1 => \A q \in 1..Len(markdown) : ~IsNestedTocLine(markdown[q])

\* C15 witness: at tocDepth > 1 a class with a property and no method next to a
\* function: one "Properties" sub-list and no "Methods" sub-list
TocNestingFollowsDepthWitness ==
    /\ Rendered
    /\ tocDepth > 1
    /\ Len(items) = 2
    /\ items[1].kind = "function"
    /\ items[2].kind = "class" /\ items[2].properties # <<>> /\ items[2].methods = <<>>
    /\ \E q \in 1..Len(markdown) :
          markdown[q].t = "tocSection" /\ markdown[q].title = "Properties"
    /\ \A q \in 1..Len(markdown) :
          markdown[q].t = "tocSection" => markdown[q].title # "Methods"

(***************************************************************************)
(* Specification of repeated calls: as in the generator's loop over the     *)
(* file groups, formatMarkdown is called up to MaxCalls times with the same *)
(* options and an item sequence chosen anew for each call; calls records    *)
(* the calls that have returned.                                            *)
(***************************************************************************)
MaxCalls == 3       \* most calls of formatMarkdown in one run

RepeatShapes ==
    {[kind |-> "function", name |-> <<"a">>, properties |-> <<>>, methods |-> <<>>,
      constructors |-> <<>>],
     [kind |-> "class", name |-> <<"A">>, properties |-> <<[name |-> <<"x">>]>>,
      methods |-> <<[name |-> <<"m">>]>>, constructors |-> <<>>]}

RepeatInputs ==
    UNION {{WithLines(shapes) : shapes \in [1..n -> RepeatShapes]} : n \in 0..MaxItems}

RepeatInit ==
    /\ items \in RepeatInputs
    /\ tocDepth \in 1..MaxTocDepth
    /\ includeTypes = TRUE
    /\ calls = <<>>
    /\ markdown = <<>>
    /\ raised = FALSE
    /\ pc = "format"
    /\ file = <<>>
    /\ text = <<>>
    /\ slug = NoResult
    /\ reslug = NoResult
    /\ IoIdle

\* the loop goes on to the next group: the call that returned is recorded and
\* formatMarkdown is about to be called with the next items
NextCall ==
    /\ pc = "done"
    /\ ~raised
    /\ Len(calls) < MaxCalls - 1
    /\ calls' = Append(calls, [items |-> items, tocDepth |-> tocDepth, markdown |-> markdown])
    /\ items' \in RepeatInputs
    /\ markdown' = <<>>
    /\ pc' = "format"
    /\ UNCHANGED <<file, tocDepth, includeTypes, raised>>
    /\ UNCHANGED slugVars
    /\ UNCHANGED ioVars

RepeatNext == FormatMarkdown \/ NextCall

SpecRepeat == RepeatInit /\ [][RepeatNext]_vars

SortNames == {<<"a">>, <<"e">>, <<EAcute>>, <<"e", CombiningAcute>>}

SortShapes ==
    {[kind |-> k, name |-> n, properties |-> <<>>, methods |-> <<>>,
      constructors |-> <<>>] : k \in {"function", "enum"}, n \in SortNames}

SortInit ==
    /\ \E n \in 0..MaxItems : \E shapes \in [1..n -> SortShapes] : items = WithLines(shapes)
    /\ tocDepth \in 1..MaxTocDepth
    /\ markdown = <<>>
    /\ raised = FALSE
    /\ includeTypes = TRUE
    /\ calls = <<>>
    /\ pc = "format"
    /\ file = <<>>
    /\ text = <<>>
    /\ slug = NoResult
    /\ reslug = NoResult
    /\ IoIdle

SortNext == FormatMarkdown

SpecSort == SortInit /\ [][SortNext]_vars

\* the input items in the order their blocks are rendered
RenderedOrder ==
    LET blocks == BodyBlocks(markdown)
    IN  [k \in 1..Len(blocks) |->
            items[CHOOSE i \in 1..Len(items) : items[i].line = blocks[k].line]]

\* C17: the sort is stable and total: sorting the rendered order again leaves
\* it as it is, two items of equal kind with distinct names are never tied in
\* the comparison, and tied items are rendered in their input order.
SortStableAndTotal ==
    Rendered =>
        LET blocks == BodyBlocks(markdown)
        IN  /\ Len(blocks) = Len(items)
            /\ SortItems(RenderedOrder) = RenderedOrder
            /\ \A i, j \in 1..Len(items) :
                  (items[i].kind = items[j].kind /\ items[i].name # items[j].name) =>
                      CompareItems(items[i], items[j]) # 0
            /\ \A i, j \in 1..Len(items) :
                  (i < j /\ CompareItems(items[i], items[j]) = 0) =>
                      BlockOfLine(blocks, items[i].line) < BlockOfLine(blocks, items[j].line)

\* the item extracted from the declaration that starts at that line
ItemOfLine(line) == items[CHOOSE k \in 1..Len(items) : items[k].line = line]

\* jsDoc: undefined and description: undefined
HasNoDocumentation(doc) == ~doc.jsDoc.present /\ doc.description = Undefined

\* the declarations and members of the file that have no comment block, each
\* with the item or member extracted from it
UndocumentedPairs ==
    UNION {LET decl == file[d]
               item == ItemOfLine(decl.line)
               Members(of, docs) ==
                   {<<of[i], docs[i]>> : i \in {j \in 1..Len(of) : of[j].jsDocs = <<>>}}
           IN  (IF decl.jsDocs = <<>> THEN {<<decl, item>>} ELSE {})
               \cup Members(decl.properties, item.properties)
               \cup Members(decl.methods, item.methods)
               \cup Members(decl.constructors, item.constructors) :
           d \in 1..Len(file)}

\* the ParameterDoc of every parameter of a function, method or constructor
\* without a comment block: no comment exists that could describe them
UndocumentedParameters ==
    UNION {LET docs == pair[2].parameters IN {docs[i] : i \in 1..Len(docs)} :
           pair \in {q \in UndocumentedPairs : "parameters" \in DOMAIN q[2]}}

\* C18: every item extracted from a declaration without a documentation
\* comment has no jsDoc and no description; the empty string never stands for
\* "no comment", in the item, its members and their parameters alike.
NoCommentMeansAbsent ==
    Extracted =>
        /\ \A pair \in UndocumentedPairs : HasNoDocumentation(pair[2])
        /\ \A param \in UndocumentedParameters : param.description = Undefined

\* the first whitespace-delimited token of a text
FirstToken(t) ==
    LET body == TrimStart(t)
        n == IF \E i \in 1..Len(body) : body[i] \in WhiteSpace
             THEN (CHOOSE i \in 1..Len(body) :
                       body[i] \in WhiteSpace /\ \A j \in 1..(i - 1) : body[j] \notin WhiteSpace) - 1
             ELSE Len(body)
    IN  SubSeq(body, 1, n)

\* C19: the extracted jsDoc has one tag entry per tag of the first comment
\* block, in source order; the entry of a @param tag is named by the first
\* whitespace-delimited token of the tag's raw text and the entry of any other
\* tag has an empty name.
TagEntriesFollowFirstBlock ==
    Extracted =>
        \A d \in 1..Len(file) :
            file[d].jsDocs # <<>> =>
                LET source == file[d].jsDocs[1].tags
                    entries == ItemOfLine(file[d].line).jsDoc.tags
                IN  /\ Len(entries) = Len(source)
                    /\ \A i \in 1..Len(source) :
                          /\ entries[i].tag = source[i].tagName
                          /\ entries[i].name = IF source[i].tagName = "param"
                                               THEN FirstToken(source[i].text)
                                               ELSE <<>>

\* the first comment block of a declaration and the tag entries extracted from it
FirstBlockTags(decl) == decl.jsDocs[1].tags

ExtractedTags(decl) == ItemOfLine(decl.line).jsDoc.tags

\* the comment block with the accessor of its i-th tag returning nothing
\* instead of throwing
WithQuietTag(block, i) ==
    [description |-> block.description,
     tags |-> [j \in 1..Len(block.tags) |->
                  IF j = i
                  THEN [tagName |-> block.tags[j].tagName, text |-> block.tags[j].text,
                        comment |-> CommentNone]
                  ELSE block.tags[j]]]

\* the entries of the tags other than the i-th are those extracted when the
\* accessor of the i-th does not throw
OtherEntriesUnaffected(decl, i) ==
    LET quiet == extractJSDocInfo(<<WithQuietTag(decl.jsDocs[1], i)>>).tags
    IN  \A j \in 1..Len(quiet) : j # i => ExtractedTags(decl)[j] = quiet[j]

\* a raw text without its leading identifier token and the whitespace that
\* delimits the token
WithoutLeadingToken(t) ==
    LET n == PrefixRun(t, WordChars) IN TrimStart(Drop(t, n))

\* extraction went through without raising and produced, for every declaration
\* with a comment, a jsDoc with one entry per tag of the first block, each entry
\* of a tag whose accessor throws having the description given by Fallback
FallsBackTo(Fallback(_)) ==
    Extracted =>
        /\ ~raised
        /\ \A d \in 1..Len(file) :
              file[d].jsDocs # <<>> =>
                  LET source == FirstBlockTags(file[d])
                      entries == ExtractedTags(file[d])
                  IN  /\ ItemOfLine(file[d].line).jsDoc.present
                      /\ Len(entries) = Len(source)
                      /\ \A i \in 1..Len(source) :
                            source[i].comment = CommentThrows =>
                                /\ entries[i].tag = source[i].tagName
                                /\ entries[i].description = Fallback(source[i])
                                /\ OtherEntriesUnaffected(file[d], i)

ClaimedFallback(tag) ==
    IF tag.tagName = "param" THEN WithoutLeadingToken(tag.text) ELSE tag.text

TrimmedFallback(tag) == Trim(ClaimedFallback(tag))

\* C20 as claimed: when the comment accessor of a tag throws, extraction does
\* not raise and the tag still has its entry, whose description is the raw
\* text without its leading identifier token (@param) or the raw text itself
\* (any other tag); the entries of the other tags are unaffected.
ThrowingAccessorFallsBackToRawText == FallsBackTo(ClaimedFallback)

\* C20: when the comment accessor of a tag throws, extraction does not raise
\* and the tag still has its entry, whose description is the raw text without
\* its leading identifier token (@param) or the raw text (any other tag),
\* trimmed of surrounding whitespace; the entries of the other tags are
\* unaffected.
ThrowingAccessorFallsBackToTrimmedText == FallsBackTo(TrimmedFallback)

\* C20 witness: the first block holds a @param tag whose accessor throws, next
\* to a tag whose accessor returns a text, and the entry of the former is
\* described by what follows the identifier in its raw text
ThrowingAccessorFallsBackToTrimmedTextWitness ==
    /\ Extracted
    /\ file[1].jsDocs # <<>>
    /\ LET source == FirstBlockTags(file[1])
           entries == ExtractedTags(file[1])
       IN  /\ Len(source) = 2
           /\ source[1].tagName = "param" /\ source[1].comment = CommentThrows
           /\ source[1].text = <<"a", " ", "x">>
           /\ source[2].comment = <<"c">>
           /\ entries[1].description = <<"x">>
           /\ entries[2].description = <<"c">>

(***************************************************************************)
(* Paths and the file writer (markdown/writer.ts).                         *)
(*                                                                         *)
(* A path is [dir, base]: the sequence of its directory names and the      *)
(* characters of its last component.  disk.files maps the path of every    *)
(* existing file to its content and disk.dirs is the set of the existing   *)
(* directories.  request.fault is what the file system refuses during the  *)
(* call: nothing, the creation of the directory, or the write.             *)
(***************************************************************************)
Exists(d, filePath) == filePath \in DOMAIN d.files

\* path.dirname(filePath)
Dirname(filePath) == filePath.dir

\* path.join(dir, base)
Join(dir, base) == [dir |-> dir, base |-> base]

Prefixes(dir) == {SubSeq(dir, 1, n) : n \in 0..Len(dir)}

\* fs.promises.mkdir(dirPath, { recursive: true })
Mkdir(d, dirPath) == [files |-> d.files, dirs |-> d.dirs \cup Prefixes(dirPath)]

\* fs.promises.writeFile(filePath, content, "utf8")
StoreFile(d, filePath, content) ==
    [files |-> [q \in DOMAIN d.files \cup {filePath} |->
                   IF q = filePath THEN content ELSE d.files[q]],
     dirs |-> d.dirs]

Ok(value) == [ok |-> TRUE, value |-> value]

Err(error) == [ok |-> FALSE, error |-> error]

\* ensureDirectory(dirPath)
ensureDirectory(d, dirPath, fault) ==
    IF fault = "mkdir"
    THEN [disk |-> d, result |-> Err([type |-> "path_creation_failed", path |-> dirPath])]
    ELSE [disk |-> Mkdir(d, dirPath), result |-> Ok(dirPath)]

\* options.overwrite: true, false, or not given
OverwriteTrue == "true"

OverwriteFalse == "false"

Unspecified == "unspecified"

ReturnsWithoutWritingUnlessTrue(d, filePath, overwrite) ==
    overwrite # OverwriteTrue /\ Exists(d, filePath)

\* if (!options.overwrite) { try { await access(filePath); if (options.overwrite
\* === false) return ok(filePath) } catch {} }: TRUE when writeFile returns here
ReturnsWithoutWriting(d, filePath, overwrite) ==
    overwrite # OverwriteTrue /\ Exists(d, filePath) /\ overwrite = OverwriteFalse

\* await fs.promises.writeFile(...); return ok(filePath), or the outer catch
WriteStep(d, filePath, content, fault) ==
    IF fault = "write"
    THEN [disk |-> d, result |-> Err([type |-> "write_failed", path |-> filePath]),
          wrote |-> FALSE]
    ELSE [disk |-> StoreFile(d, filePath, content), result |-> Ok(filePath), wrote |-> TRUE]

\* writeFile(filePath, content, options) run without interruption
writeFile(d, filePath, content, overwrite, fault) ==
    IF ReturnsWithoutWriting(d, filePath, overwrite)
    THEN [disk |-> d, result |-> Ok(filePath), wrote |-> FALSE]
    ELSE LET dirResult == ensureDirectory(d, Dirname(filePath), fault)
         IN  IF ~dirResult.result.ok
             THEN [disk |-> d, result |-> dirResult.result, wrote |-> FALSE]
             ELSE WriteStep(dirResult.disk, filePath, content, fault)

\* generateFilePath(outputDir, fileName): ".md" is appended unless the name
\* ends with it
MdExtension == <<".", "m", "d">>

EndsWith(s, suffix) ==
    Len(s) >= Len(suffix) /\ SubSeq(s, Len(s) - Len(suffix) + 1, Len(s)) = suffix

generateFilePath(outputDir, fileName) ==
    Join(outputDir, IF EndsWith(fileName, MdExtension) THEN fileName
                    ELSE fileName \o MdExtension)

(***************************************************************************)
(* Specification of one call of writeFile, step by step: the existence     *)
(* check, the creation of the directory and the write are separate system  *)
(* calls.  request.before is the file system when the call is made.        *)
(***************************************************************************)
OutputPaths ==
    {Join(<<"docs">>, <<"a", ".", "m", "d">>),
     Join(<<"docs", "api">>, <<"a", ".", "m", "d">>)}

OtherPath == Join(<<"docs">>, <<"b", ".", "m", "d">>)

Contents == {"old", "new"}

\* the file systems writeFile may meet: another file is there; the target is
\* missing with or without its directory, or exists with the old content
DisksBefore(filePath) ==
    LET base == StoreFile(Mkdir(EmptyDisk, OtherPath.dir), OtherPath, "other")
    IN  {base, Mkdir(base, filePath.dir), StoreFile(Mkdir(base, filePath.dir), filePath, "old")}

WriteInit ==
    /\ \E filePath \in OutputPaths, content \in Contents,
          overwrite \in {OverwriteTrue, OverwriteFalse, Unspecified}, fault \in {"none", "mkdir", "write"} :
          \E before \in DisksBefore(filePath) :
              /\ request = [op |-> "writeFile", filePath |-> filePath, content |-> content,
                            overwrite |-> overwrite, fault |-> fault, before |-> before]
              /\ disk = before
    /\ locals = NoLocals
    /\ result = NoResult
    /\ log = <<>>
    /\ pc = "writeFile"
    /\ text = <<>>
    /\ slug = NoResult
    /\ reslug = NoResult
    /\ file = <<>>
    /\ items = <<>>
    /\ tocDepth = 1
    /\ includeTypes = TRUE
    /\ calls = <<>>
    /\ markdown = <<>>
    /\ raised = FALSE

renderVars == <<text, slug, reslug, file, items, tocDepth, includeTypes, calls, markdown, raised>>

\* await fs.promises.access(filePath), reached when options.overwrite is falsy
WriteFileAccess ==
    /\ pc = "writeFile"
    /\ request.overwrite # OverwriteTrue
    /\ IF ReturnsWithoutWriting(disk, request.filePath, request.overwrite)
       THEN result' = Ok(request.filePath) /\ pc' = "done"
       ELSE result' = result /\ pc' = "mkdir"
    /\ UNCHANGED <<disk, request, locals, log>>
    /\ UNCHANGED renderVars

\* await ensureDirectory(path.dirname(filePath))
WriteFileEnsureDirectory ==
    /\ \/ pc = "mkdir"
       \/ pc = "writeFile" /\ request.overwrite = OverwriteTrue
    /\ LET dirResult == ensureDirectory(disk, Dirname(request.filePath), request.fault)
       IN  /\ disk' = dirResult.disk
           /\ IF dirResult.result.ok
              THEN result' = result /\ pc' = "write"
              ELSE result' = dirResult.result /\ pc' = "done"
    /\ UNCHANGED <<request, locals, log>>
    /\ UNCHANGED renderVars

\* await fs.promises.writeFile(filePath, content, "utf8")
WriteFileWrite ==
    /\ pc = "write"
    /\ LET written == WriteStep(disk, request.filePath, request.content, request.fault)
       IN  /\ disk' = written.disk
           /\ result' = written.result
                  /\ log' = IF written.wrote
                     THEN Append(log, [path |-> request.filePath,
                                       content |-> request.content, ok |-> TRUE])
                     ELSE log
    /\ pc' = "done"
    /\ UNCHANGED <<request, locals>>
    /\ UNCHANGED renderVars

WriteNext == WriteFileAccess \/ WriteFileEnsureDirectory \/ WriteFileWrite

SpecWrite == WriteInit /\ [][WriteNext]_vars

(***************************************************************************)
(* DocumentationGenerator.generate: parse, extract, group by file name,    *)
(* write one document per group, write the index.                          *)
(*                                                                         *)
(* request holds what the parser returns (parseFails, or the source files, *)
(* each [filePath, declarations]), config.outDir, options.tocDepth, and    *)
(* failAt: the number of the writeFile call that the file system refuses   *)
(* (0 for none).  log gets one entry per call of writeFile.                *)
(***************************************************************************)
MaxSources == 2     \* most source files in one run of generate

\* path.extname(base): from the last "." on, unless there is none or it is
\* the first character
Extname(base) ==
    LET dots == {i \in 2..Len(base) : base[i] = "."}
    IN  IF dots = {} THEN <<>>
        ELSE SubSeq(base, CHOOSE i \in dots : \A j \in dots : j <= i, Len(base))

\* path.basename(filePath, path.extname(filePath))
BasenameWithoutExtension(filePath) ==
    SubSeq(filePath.base, 1, Len(filePath.base) - Len(Extname(filePath.base)))

WithFilePath(item, filePath) ==
    [f \in DOMAIN item \cup {"filePath"} |-> IF f = "filePath" THEN filePath ELSE item[f]]

\* for (const sourceFile of sourceFiles) allDocItems.push(...extractDocumentation(sourceFile))
WithFilePaths(docs, filePath) ==
    [i \in 1..Len(docs) |-> WithFilePath(docs[i], filePath)]

AllDocItems(sourceFiles) ==
    Flatten([k \in 1..Len(sourceFiles) |->
        WithFilePaths(extractDocumentation(sourceFiles[k].declarations),
                      sourceFiles[k].filePath)])

\* the Map fileGroups as the sequence of its entries, in insertion order
FileGroups(allDocItems) ==
    LET keyOf(i) == BasenameWithoutExtension(allDocItems[i].filePath)
        IsFirst(i) == \A j \in 1..(i - 1) : keyOf(j) # keyOf(i)
        firsts == SelectSeq([i \in 1..Len(allDocItems) |-> i], IsFirst)
    IN  [g \in 1..Len(firsts) |->
            [fileName |-> keyOf(firsts[g]),
             items |-> SelectSeq(allDocItems,
                                 LAMBDA it : BasenameWithoutExtension(it.filePath)
                                             = keyOf(firsts[g]))]]

\* generateIndexItems(fileGroups): the title, then one line per group
generateIndexItems(fileGroups) ==
    <<[t |-> "indexTitle"]>>
    \o [g \in 1..Len(fileGroups) |->
           [t |-> "indexEntry", text |-> fileGroups[g].fileName,
            link |-> fileGroups[g].fileName \o MdExtension,
            count |-> Len(fileGroups[g].items)]]

IndexName == <<"i", "n", "d", "e", "x">>

\* the fault met by the writeFile call that is the n-th of the run
FaultOf(n) == IF request.failAt = n THEN request.fault ELSE "none"

\* addSourceFiles, the extraction loop and the grouping loop
GenerateParse ==
    /\ pc = "generate"
    /\ IF request.parseFails
       THEN /\ result' = Err([type |-> "parser_error"])
            /\ locals' = locals
            /\ pc' = "done"
       ELSE /\ result' = result
            /\ locals' = [op |-> "generate",
                          fileGroups |-> FileGroups(AllDocItems(request.sourceFiles)),
                          writtenFiles |-> <<>>]
            /\ pc' = "write"
    /\ UNCHANGED <<disk, request, log>>
    /\ UNCHANGED renderVars

GenerateWriteGroupIgnoringFailure ==
    /\ pc = "write"
    /\ Len(locals.writtenFiles) < Len(locals.fileGroups)
    /\ LET group == locals.fileGroups[Len(locals.writtenFiles) + 1]
           outputPath == generateFilePath(request.outDir, group.fileName)
           content == formatMarkdown(group.items, request.tocDepth)
           written == writeFile(disk, outputPath, content, OverwriteTrue,
                                FaultOf(Len(log) + 1))
       IN  /\ disk' = written.disk
           /\ log' = Append(log, [path |-> outputPath, content |-> content,
                                  ok |-> written.result.ok])
           /\ locals' = [locals EXCEPT !.writtenFiles = Append(@, outputPath)]
           /\ result' = result
           /\ pc' = "write"
    /\ UNCHANGED request
    /\ UNCHANGED renderVars

\* one round of the loop over fileGroups.entries()
GenerateWriteGroup ==
    /\ pc = "write"
    /\ Len(locals.writtenFiles) < Len(locals.fileGroups)
    /\ LET group == locals.fileGroups[Len(locals.writtenFiles) + 1]
           outputPath == generateFilePath(request.outDir, group.fileName)
           content == formatMarkdown(group.items, request.tocDepth)
           written == writeFile(disk, outputPath, content, OverwriteTrue,
                                FaultOf(Len(log) + 1))
       IN  /\ disk' = written.disk
           /\ log' = Append(log, [path |-> outputPath, content |-> content,
                                  ok |-> written.result.ok])
           /\ IF written.result.ok
              THEN /\ locals' = [locals EXCEPT
                                    !.writtenFiles = Append(@, written.result.value)]
                   /\ result' = result
                   /\ pc' = "write"
              ELSE /\ locals' = locals
                   /\ result' = Err([type |-> "output_error", path |-> outputPath])
                   /\ pc' = "done"
    /\ UNCHANGED request
    /\ UNCHANGED renderVars

\* the index is written after the loop and the list of paths is returned
GenerateWriteIndex ==
    /\ pc = "write"
    /\ Len(locals.writtenFiles) = Len(locals.fileGroups)
    /\ LET indexPath == generateFilePath(request.outDir, IndexName)
           content == generateIndexItems(locals.fileGroups)
           written == writeFile(disk, indexPath, content, OverwriteTrue,
                                FaultOf(Len(log) + 1))
       IN  /\ disk' = written.disk
           /\ log' = Append(log, [path |-> indexPath, content |-> content,
                                  ok |-> written.result.ok])
           /\ IF written.result.ok
              THEN /\ locals' = [locals EXCEPT
                                    !.writtenFiles = Append(@, written.result.value)]
                   /\ result' = Ok(locals'.writtenFiles)
              ELSE /\ locals' = locals
                   /\ result' = Err([type |-> "output_error", path |-> indexPath])
    /\ pc' = "done"
    /\ UNCHANGED request
    /\ UNCHANGED renderVars

GenerateNext == GenerateParse \/ GenerateWriteGroup \/ GenerateWriteIndex

\* the source files of a run: up to MaxSources files of distinct paths, two of
\* which share their name, one of which is called index, each declaring up
\* to two functions
SourcePaths ==
    {Join(<<"x">>, <<"a", ".", "t", "s">>), Join(<<"y">>, <<"a", ".", "t", "s">>),
     Join(<<"x">>, <<"i", "n", "d", "e", "x", ".", "t", "s">>)}

SourceFunction(name) ==
    [kind |-> "function", name |-> name, jsDocs |-> <<>>, parameters |-> <<>>,
     properties |-> <<>>, methods |-> <<>>, constructors |-> <<>>]

SourceDeclarations ==
    {DeclarationsAtLines(shapes) :
        shapes \in {<<>>, <<SourceFunction(<<"a">>)>>, <<SourceFunction(<<"b">>)>>,
                    <<SourceFunction(<<"a">>), SourceFunction(<<"b">>)>>}}

SourceFileLists ==
    UNION {{fs \in [1..n -> [filePath : SourcePaths, declarations : SourceDeclarations]] :
               \A i, j \in 1..n : i # j => fs[i].filePath # fs[j].filePath} :
           n \in 0..MaxSources}

GenerateInit ==
    /\ \E parseFails \in BOOLEAN, sourceFiles \in SourceFileLists,
          failAt \in 0..(MaxSources + 1), fault \in {"mkdir", "write"} :
          /\ parseFails => sourceFiles = <<>> /\ failAt = 0
          /\ failAt = 0 => fault = "write"
          /\ request = [op |-> "generate", parseFails |-> parseFails,
                        sourceFiles |-> sourceFiles, outDir |-> <<"docs">>,
                        tocDepth |-> 1, failAt |-> failAt, fault |-> fault]
    /\ disk = EmptyDisk
    /\ locals = NoLocals
    /\ result = NoResult
    /\ log = <<>>
    /\ pc = "generate"
    /\ text = <<>>
    /\ slug = NoResult
    /\ reslug = NoResult
    /\ file = <<>>
    /\ items = <<>>
    /\ tocDepth = 1
    /\ includeTypes = TRUE
    /\ calls = <<>>
    /\ markdown = <<>>
    /\ raised = FALSE

SpecGenerate == GenerateInit /\ [][GenerateNext]_vars

\* the run of generate is over and returned the list of the written paths
Generated == pc = "done" /\ result.ok

IndexPath == generateFilePath(request.outDir, IndexName)

\* the source files that items come from
OriginatingFiles ==
    {k \in 1..Len(request.sourceFiles) : request.sourceFiles[k].declarations # <<>>}

\* the items of a rendered document and the declarations of a source file, as
\* bags of (name, line)
RenderedItemsOf(doc) ==
    LET blocks == BodyBlocks(doc)
    IN  [nl \in {<<blocks[i].name, blocks[i].line>> : i \in 1..Len(blocks)} |->
            Cardinality({i \in 1..Len(blocks) : <<blocks[i].name, blocks[i].line>> = nl})]

DeclaredItemsOf(k) ==
    LET decls == request.sourceFiles[k].declarations
    IN  [nl \in {<<decls[i].name, decls[i].line>> : i \in 1..Len(decls)} |->
            Cardinality({i \in 1..Len(decls) : <<decls[i].name, decls[i].line>> = nl})]

\* the calls of writeFile that wrote a per-file document
DocumentWrites == {i \in 1..Len(log) : i <= Len(locals.fileGroups)}

\* C21: after a successful run every per-file document holds the items of
\* exactly one source file, no path was written twice (no document is
\* overwritten by another document or by the index), and the index lists
\* one entry per source file that items come from.
OneDocumentPerSourceFile ==
    Generated =>
        /\ \A i \in DocumentWrites :
              \E k \in OriginatingFiles : RenderedItemsOf(log[i].content) = DeclaredItemsOf(k)
        /\ \A i, j \in 1..Len(log) : i # j => log[i].path # log[j].path
        /\ LET index == disk.files[IndexPath]
               entries == {e \in 2..Len(index) : index[e].t = "indexEntry"}
           IN  /\ Cardinality(entries) = Cardinality(OriginatingFiles)
               /\ \A k \in OriginatingFiles :
                     \E e \in entries :
                         index[e].text = BasenameWithoutExtension(request.sourceFiles[k].filePath)

\* the call of writeFile has returned
WriteFileReturned == request.op = "writeFile" /\ pc = "done"

\* options.overwrite is false and the file was there when writeFile was called
MustNotOverwrite ==
    request.overwrite = OverwriteFalse /\ Exists(request.before, request.filePath)

\* C22: writeFile returns Ok(path) without touching the file system exactly
\* when options.overwrite is false and the file exists; in every other case a
\* successful call has created the missing directories of the path and left
\* the file with exactly the given content, the other files being as before.
OverwriteFalseKeepsExistingFile ==
    WriteFileReturned =>
        /\ MustNotOverwrite =>
              /\ result.ok /\ result.value = request.filePath
              /\ disk = request.before
              /\ log = <<>>
        /\ (~MustNotOverwrite /\ result.ok) =>
              /\ result.value = request.filePath
              /\ Len(log) = 1
              /\ Exists(disk, request.filePath)
              /\ disk.files[request.filePath] = request.content
              /\ Prefixes(Dirname(request.filePath)) \subseteq disk.dirs
              /\ \A q \in DOMAIN request.before.files :
                    q # request.filePath => disk.files[q] = request.before.files[q]

\* C22 witness: a call with overwrite false and other content returned and
\* the existing file still has its old content; nothing was written
OverwriteFalseKeepsExistingFileWitness ==
    /\ WriteFileReturned
    /\ MustNotOverwrite
    /\ request.content # request.before.files[request.filePath]
    /\ disk.files[request.filePath] = request.before.files[request.filePath]
    /\ result.ok

\* C23: writeFile never raises; a failure is returned as an Err of type
\* write_failed or path_creation_failed whose path is the file path that
\* writeFile was called with.
WriteFailureCarriesFilePath ==
    /\ request.op = "writeFile" => ~raised
    /\ (WriteFileReturned /\ ~result.ok) =>
          /\ result.error.type \in {"write_failed", "path_creation_failed"}
          /\ result.error.path = request.filePath

(***************************************************************************)
(* The configuration loader (config/loader.ts, config/schema).             *)
(*                                                                         *)
(* A JavaScript value is [type, value] for a string, a number or a boolean *)
(* (value being its literal text), [type |-> "object", fields] for an      *)
(* object, fields mapping its own keys to values, and Absent for           *)
(* undefined.  Of the schema the model keeps                               *)
(* outDir and title (strings with a default), description (an optional     *)
(* string) and markdownOptions (an object with defaults, of which tocDepth *)
(* and includeTypes are kept); the fields left out are like these.         *)
(***************************************************************************)
Absent == [type |-> "undefined"]

Str(v) == [type |-> "string", value |-> v]

Num(v) == [type |-> "number", value |-> v]

Bool(v) == [type |-> "boolean", value |-> v]

Obj(fields) == [type |-> "object", fields |-> fields]

NoFields == [k \in {} |-> Absent]

Get(fields, k) == IF k \in DOMAIN fields THEN fields[k] ELSE Absent

defaultConfig ==
    [outDir |-> Str("./docs"),
     title |-> Str("API Documentation"),
     markdownOptions |-> Obj([tocDepth |-> Num("3"), includeTypes |-> Bool("true")])]

\* the own enumerable keys that Object.assign copies from a source: the keys
\* of an object, the indices of a string, nothing for any other value
OwnFields(source) ==
    IF source.type = "object" THEN source.fields
    ELSE IF source.type = "string" THEN [k \in {"0"} |-> Str("c")]
    ELSE NoFields

\* Object.assign({}, target, source)
ObjectAssign(target, source) ==
    LET own == OwnFields(source)
    IN  [k \in DOMAIN target \cup DOMAIN own |->
            IF k \in DOMAIN own THEN own[k] ELSE target[k]]

Parsed(value) == [success |-> TRUE, value |-> value]

Invalid == [success |-> FALSE, value |-> Absent]

\* z.string().default(d), z.boolean().default(d)
ParseWithDefault(v, type, default) ==
    IF v = Absent THEN Parsed(default)
    ELSE IF v.type = type THEN Parsed(v)
    ELSE Invalid

\* z.string().optional()
ParseOptional(v, type) ==
    IF v = Absent \/ v.type = type THEN Parsed(v) ELSE Invalid

\* z.number().int().min(1).max(6).default(3)
ParseTocDepth(v) ==
    IF v = Absent THEN Parsed(Num("3"))
    ELSE IF v.type = "number" /\ v.value \in {"1", "2", "3", "4", "5", "6"} THEN Parsed(v)
    ELSE Invalid

\* z.object({ tocDepth, includeTypes }).default({})
ParseMarkdownOptions(v) ==
    LET fields == IF v = Absent THEN NoFields ELSE v.fields
        depth == ParseTocDepth(Get(fields, "tocDepth"))
        types == ParseWithDefault(Get(fields, "includeTypes"), "boolean", Bool("true"))
    IN  IF v # Absent /\ v.type # "object" THEN Invalid
        ELSE IF depth.success /\ types.success
             THEN Parsed(Obj([tocDepth |-> depth.value, includeTypes |-> types.value]))
        ELSE Invalid

\* ConfigSchema.safeParse(merged): unknown keys are dropped
SafeParse(merged) ==
    LET outDir == ParseWithDefault(Get(merged, "outDir"), "string", Str("./docs"))
        title == ParseWithDefault(Get(merged, "title"), "string", Str("API Documentation"))
        description == ParseOptional(Get(merged, "description"), "string")
        options == ParseMarkdownOptions(Get(merged, "markdownOptions"))
    IN  IF outDir.success /\ title.success /\ description.success /\ options.success
        THEN [success |-> TRUE,
              data |-> [outDir |-> outDir.value, title |-> title.value,
                        description |-> description.value,
                        markdownOptions |-> options.value]]
        ELSE [success |-> FALSE, data |-> Absent]

parseConfig(config) ==
    LET parsed == SafeParse(ObjectAssign(defaultConfig, config))
    IN  IF parsed.success THEN Ok(parsed.data) ELSE Err([type |-> "invalid_format"])

\* loadConfig(options): request.loaded is what explorer.load or
\* explorer.search does: it throws, resolves to null, or resolves to a result
\* whose config is request.config
loadConfigOutcome(req) ==
    IF req.loaded = "throws" THEN Err([type |-> "io_error"])
    ELSE IF req.loaded = "nothing"
         THEN IF req.hasConfigPath THEN Err([type |-> "not_found"])
              ELSE Ok(defaultConfig)
    ELSE parseConfig(req.config)

\* the configurations a file may hold
UserValues ==
    [outDir |-> {Str("./out"), Num("42")},
     title |-> {Str("T")},
     description |-> {Str("D")},
     markdownOptions |-> {Obj([tocDepth |-> Num("2")]), Obj([tocDepth |-> Num("0")]),
                          Obj(NoFields), Str("x")},
     extra |-> {Str("e")}]

UserObjects ==
    UNION {{Obj(f) : f \in {g \in [keys -> UNION {UserValues[k] : k \in keys}] :
                                \A k \in keys : g[k] \in UserValues[k]}} :
           keys \in SUBSET DOMAIN UserValues}

UserConfigs == UserObjects \cup {Str("abc"), Num("1")}

ConfigInit ==
    /\ \E hasConfigPath \in BOOLEAN, loaded \in {"throws", "nothing", "found"} :
          \E config \in IF loaded = "found" THEN UserConfigs ELSE {Absent} :
              request = [op |-> "loadConfig", hasConfigPath |-> hasConfigPath,
                         loaded |-> loaded, config |-> config]
    /\ disk = EmptyDisk
    /\ locals = NoLocals
    /\ result = NoResult
    /\ log = <<>>
    /\ pc = "loadConfig"
    /\ text = <<>>
    /\ slug = NoResult
    /\ reslug = NoResult
    /\ file = <<>>
    /\ items = <<>>
    /\ tocDepth = 1
    /\ includeTypes = TRUE
    /\ calls = <<>>
    /\ markdown = <<>>
    /\ raised = FALSE

LoadConfig ==
    /\ pc = "loadConfig"
    /\ result' = loadConfigOutcome(request)
    /\ pc' = "done"
    /\ UNCHANGED <<disk, request, locals, log>>
    /\ UNCHANGED renderVars

ConfigNext == LoadConfig

SpecConfig == ConfigInit /\ [][ConfigNext]_vars

LoadConfigReturned == request.op = "loadConfig" /\ pc = "done"

\* the loaded configuration is not what ConfigSchema accepts
ViolatesSchema(config) ==
    config.type # "object" \/ ~SafeParse(config.fields).success

\* the value of a field that the user gives, else the default's
UserOrDefault(user, default, k) == IF k \in DOMAIN user THEN user[k] ELSE Get(default, k)

\* data has the user's top-level values over the defaults, and the defaults
\* for the fields of markdownOptions that the user leaves out
IsUserOverDefaults(data, user) ==
    LET options == Get(user, "markdownOptions")
        given == IF options = Absent THEN NoFields ELSE options.fields
    IN  /\ \A k \in {"outDir", "title", "description"} :
              data[k] = UserOrDefault(user, defaultConfig, k)
        /\ \A n \in {"tocDepth", "includeTypes"} :
              data.markdownOptions.fields[n]
                  = UserOrDefault(given, defaultConfig.markdownOptions.fields, n)

\* C24: loadConfig never raises and returns Err not_found for a given path
\* whose load yields nothing, Err io_error when the loader throws, Err
\* invalid_format for a loaded configuration that violates the schema, Ok
\* with the defaults when the search finds nothing, and otherwise Ok with
\* the user's values over the defaults.
LoadConfigMapsEveryOutcome ==
    /\ request.op = "loadConfig" => ~raised
    /\ LoadConfigReturned =>
          IF request.loaded = "throws"
          THEN ~result.ok /\ result.error.type = "io_error"
          ELSE IF request.loaded = "nothing"
          THEN IF request.hasConfigPath
               THEN ~result.ok /\ result.error.type = "not_found"
               ELSE result.ok /\ result.value = defaultConfig
          ELSE IF ViolatesSchema(request.config)
          THEN ~result.ok /\ result.error.type = "invalid_format"
          ELSE result.ok /\ IsUserOverDefaults(result.value, request.config.fields)

(***************************************************************************)
(* Specification of the pipeline over one function m(a, b) whose one       *)
(* comment block is well-formed: each of its up to MaxTags tags is a       *)
(* @param tag that reads "name description", and its comment accessor      *)
(* returns that description or throws.                                     *)
(***************************************************************************)
WellFormedTags ==
    {[tagName |-> "param", text |-> name \o <<" ">> \o description, comment |-> comment] :
        name \in {<<"a">>, <<"b">>}, description \in {<<"x">>, <<"a">>},
        comment \in {CommentThrows}} \cup
    {[tagName |-> "param", text |-> name \o <<" ">> \o description, comment |-> description] :
        name \in {<<"a">>, <<"b">>}, description \in {<<"x">>, <<"a">>}}

WellFormedBlocks ==
    UNION {{[description |-> d, tags |-> ts] : d \in Descriptions, ts \in [1..k -> WellFormedTags]} :
           k \in 0..MaxTags}

WellFormedInit ==
    /\ \E block \in WellFormedBlocks :
          file = <<[kind |-> "function", name |-> <<"m">>, line |-> 1, jsDocs |-> <<block>>,
                    parameters |-> ParameterNames,
                    properties |-> <<>>, methods |-> <<>>, constructors |-> <<>>]>>
    /\ tocDepth = 1
    /\ PipelineStart

SpecWellFormed == WellFormedInit /\ [][PipelineNext]_vars

\* the descriptions of the parsed tags that are @param tags of that name
ParsedDescriptionsOf(jsDocInfo, paramName) ==
    {jsDocInfo.tags[i].description :
        i \in {j \in 1..Len(jsDocInfo.tags) :
                  jsDocInfo.tags[j].tag = "param" /\ jsDocInfo.tags[j].name = paramName}}

\* C25: for a well-formed first block the two description paths agree: what
\* extractParameterDescription finds for a parameter is the description of
\* the parsed tag that is a @param of the parameter's name (nothing when
\* there is no such tag), and it is the description of the ParameterDoc.
DescriptionPathsAgree ==
    Extracted =>
        \A d \in 1..Len(file) :
            LET item == ItemOfLine(file[d].line)
            IN  \A i \in 1..Len(item.parameters) :
                    LET name == item.parameters[i].name
                        raw == extractParameterDescription(name, file[d].jsDocs)
                        parsed == ParsedDescriptionsOf(item.jsDoc, name)
                    IN  /\ item.parameters[i].description = raw
                        /\ IF parsed = {} THEN raw = <<>> ELSE raw \in parsed

\* C26: the description of the extracted jsDoc is the untagged description
\* of the first comment block with leading and trailing whitespace removed,
\* and so equals the description of the item.
JSDocDescriptionIsTrimmed ==
    Extracted =>
        \A d \in 1..Len(file) :
            file[d].jsDocs # <<>> =>
                LET item == ItemOfLine(file[d].line)
                IN  /\ item.jsDoc.description = Trim(file[d].jsDocs[1].description)
                    /\ item.jsDoc.description = item.description

\* the names of the members of an item, in the order constructors,
\* properties, methods
MemberNames(item) ==
    [i \in 1..Len(item.constructors) |-> item.constructors[i].name]
    \o [i \in 1..Len(item.properties) |-> item.properties[i].name]
    \o [i \in 1..Len(item.methods) |-> item.methods[i].name]

\* no two items have the same name and no two members of one item have
\* the same name
DistinctParentAndName ==
    /\ \A i, j \in 1..Len(items) : i # j => items[i].name # items[j].name
    /\ \A k \in 1..Len(items) :
          LET names == MemberNames(items[k])
          IN  \A i, j \in 1..Len(names) : i # j => names[i] # names[j]

\* C27: in a rendered document of items and members with pairwise distinct
\* (parent, name) pairs no two anchors have the same id.
AnchorIdsUnique ==
    (Rendered /\ DistinctParentAndName) =>
        LET anchors == PositionsOf(markdown, IsAnchor)
        IN  \A p, q \in 1..Len(anchors) :
                p # q => markdown[anchors[p]].id # markdown[anchors[q]].id

IsIndexWrite(entry) == entry.content[1].t = "indexTitle"

\* C28: a parser failure returns Err parser_error with nothing written; a
\* failing write is the last call of writeFile and returns Err output_error
\* with the path of that file; the index is written only after every
\* per-file document was written successfully; on success the returned list
\* holds the per-file paths in write order and the index path last.
GenerateWritesInOrder ==
    request.op = "generate" =>
        /\ (pc = "done" /\ request.parseFails) =>
              /\ ~result.ok /\ result.error.type = "parser_error"
              /\ log = <<>> /\ disk = EmptyDisk
        /\ \A i \in 1..Len(log) :
              /\ ~log[i].ok =>
                    /\ i = Len(log) /\ pc = "done"
                    /\ ~result.ok /\ result.error.type = "output_error"
                    /\ result.error.path = log[i].path
              /\ IsIndexWrite(log[i]) =>
                    /\ i = Len(locals.fileGroups) + 1
                    /\ log[i].path = IndexPath
                    /\ \A j \in 1..(i - 1) :
                          /\ log[j].ok /\ ~IsIndexWrite(log[j])
                          /\ log[j].path
                                = generateFilePath(request.outDir, locals.fileGroups[j].fileName)
        /\ (pc = "done" /\ result.ok) =>
              /\ Len(log) = Len(locals.fileGroups) + 1
              /\ \A i \in 1..Len(log) : log[i].ok
              /\ IsIndexWrite(log[Len(log)])
              /\ result.value = [i \in 1..Len(log) |-> log[i].path]

\* C28 witness: the first document was written, the write of the second
\* failed, generate returned its path as an output_error and the index was
\* not written
GenerateWritesInOrderWitness ==
    /\ request.op = "generate" /\ pc = "done"
    /\ Len(log) = 2 /\ log[1].ok /\ ~log[2].ok /\ ~IsIndexWrite(log[2])
    /\ ~result.ok /\ result.error.path = log[2].path
    /\ ~Exists(disk, IndexPath)

(***************************************************************************)
(* Specification of one call of writeFile next to another writer: between  *)
(* any two system calls of writeFile another process may create the file.  *)
(***************************************************************************)
OtherWriterCreates ==
    /\ request.op = "writeFile"
    /\ pc \in {"writeFile", "mkdir", "write"}
    /\ ~Exists(disk, request.filePath)
    /\ disk' = StoreFile(Mkdir(disk, Dirname(request.filePath)), request.filePath, "theirs")
    /\ UNCHANGED <<request, locals, result, log, pc>>
    /\ UNCHANGED renderVars

RaceNext == WriteNext \/ OtherWriterCreates

SpecRace == WriteInit /\ [][RaceNext]_vars

\* C29: a step of writeFile called with overwrite false never changes the
\* content of a file that exists when the step is taken, whatever another
\* writer did before.
OverwriteFalseNeverReplaces ==
    [][(/\ request.op = "writeFile"
        /\ request.overwrite = OverwriteFalse
        /\ Exists(disk, request.filePath))
           => disk'.files[request.filePath] = disk.files[request.filePath]]_vars

(***************************************************************************)
(* The generate command of the command line (index.ts).  request.output is *)
(* what the user passes as -o/--output, Absent when the option is left     *)
(* out; the configuration file is loaded as in loadConfig.                 *)
(***************************************************************************)
CliOutputs == {Absent, Str("./cli"), Str("")}

\* .option("-o, --output <directory>", "Output directory", "./docs"): the
\* value of options.output after the command line was parsed
OptionWithDefault(given, default) == IF given = Absent THEN default ELSE given

\* if (value) for a string or undefined
Truthy(value) == value # Absent /\ value # Str("")

CliInit ==
    /\ \E output \in CliOutputs, hasConfigPath \in BOOLEAN,
          loaded \in {"throws", "nothing", "found"} :
          \E config \in IF loaded = "found" THEN UserConfigs ELSE {Absent} :
              request = [op |-> "cli", output |-> output, hasConfigPath |-> hasConfigPath,
                         loaded |-> loaded, config |-> config]
    /\ disk = EmptyDisk
    /\ locals = NoLocals
    /\ result = NoResult
    /\ log = <<>>
    /\ pc = "cli"
    /\ text = <<>>
    /\ slug = NoResult
    /\ reslug = NoResult
    /\ file = <<>>
    /\ items = <<>>
    /\ tocDepth = 1
    /\ includeTypes = TRUE
    /\ calls = <<>>
    /\ markdown = <<>>
    /\ raised = FALSE

\* commander parses the command line and calls the action with options
CliParseOptions ==
    /\ pc = "cli"
    /\ locals' = [op |-> "cli",
                  options |-> [output |-> OptionWithDefault(request.output, Str("./docs"))]]
    /\ pc' = "cliLoadConfig"
    /\ UNCHANGED <<disk, request, result, log>>
    /\ UNCHANGED renderVars

\* const configResult = await loadConfig(...); an Err ends the process
CliLoadConfig ==
    /\ pc = "cliLoadConfig"
    /\ LET configResult == loadConfigOutcome(request)
       IN  IF configResult.ok
           THEN /\ locals' = [op |-> "cli", options |-> locals.options,
                              config |-> configResult.value]
                /\ pc' = "cliGenerate"
                /\ UNCHANGED result
           ELSE /\ result' = configResult
                /\ pc' = "exit"
                /\ UNCHANGED locals
    /\ UNCHANGED <<disk, request, log>>
    /\ UNCHANGED renderVars

\* the override of config.outDir and new DocumentationGenerator(config):
\* result is the configuration that the generator is constructed with
CliGenerate ==
    /\ pc = "cliGenerate"
    /\ result' = Ok(IF Truthy(locals.options.output)
                    THEN [locals.config EXCEPT !.outDir = locals.options.output]
                    ELSE locals.config)
    /\ pc' = "done"
    /\ UNCHANGED <<disk, request, locals, log>>
    /\ UNCHANGED renderVars

CliNext == CliParseOptions \/ CliLoadConfig \/ CliGenerate

SpecCli == CliInit /\ [][CliNext]_vars

\* C30: the generator's output directory is the outDir of the configuration
\* as loaded when the user passes no -o/--output, and the value of the
\* option when the user passes one.
CliOutputOverridesOnlyWhenGiven ==
    (request.op = "cli" /\ pc = "done") =>
        result.value.outDir = IF request.output = Absent
                              THEN locals.config.outDir
                              ELSE request.output

====
